---- MODULE Spec2Model ----
(***************************************************************************)
(* The in-memory document store of docstore-api (models/document.go):      *)
(* a map from identifier to Document guarded by one sync.RWMutex, called   *)
(* from concurrently running goroutines.  Every goroutine step that reads  *)
(* or writes the shared map is one action, so that the atomicity of an     *)
(* operation is a consequence of the lock and not of the model.            *)
(*                                                                         *)
(* Above the store, the service (services.documentService) and the        *)
(* handlers of controllers.DocumentController run on the goroutine of      *)
(* their caller; their locals are the variable caller.                     *)
(*                                                                         *)
(* Strings are modelled by naturals; 0 is the empty string "".             *)
(***************************************************************************)
EXTENDS Naturals, Integers, Sequences, FiniteSets, TLC

\* ------------------------------------------------------------- bounds
NumProcs == 3   \* goroutines calling the store
MaxId    == 1   \* identifiers are the strings 0..MaxId
MaxText  == 1   \* names are the strings 0..MaxText

Procs == 1..NumProcs
IDs   == 0..MaxId

\* the names records are given, and the descriptions: the empty one and
\* another
Names        == 0..MaxText
Descriptions == {0, MaxText}

\* ------------------------------------------------------------- data
\* type Document struct { ID, Name, Description string }
Document == [ID : IDs, Name : Names, Description : Descriptions]

\* Document{} : the zero value
ZeroDoc == [ID |-> 0, Name |-> 0, Description |-> 0]

\* errors.New(...) values, and the nil error
Nil              == "nil"
ErrAlreadyExists == "document already exists"
ErrNotFound      == "document not found"

\* make(map[string]Document)
EmptyMap == [k \in {} |-> ZeroDoc]

\* The values an entry of map[string]interface{} can hold after JSON
\* decoding: a string (here the empty one or another), or something that is
\* not a string.
StringVal(s) == [kind |-> "string", v |-> s]
NumberVal    == [kind |-> "number", v |-> 0]
Values       == {StringVal(0), StringVal(MaxText), NumberVal}

\* The keys an updates map is given here: the two recognized fields, the
\* identifier's JSON name and a field the Document does not have.
Keys == {"name", "description", "id", "other"}

\* every map[string]interface{} over Keys
AllUpdates == UNION {[S -> Values] : S \in SUBSET Keys}

\* the maps given to PartialUpdate: every combination of entries for the
\* recognized fields, alone or with one value under "id" or "other"
ExtraValue == StringVal(MaxText)
Updates ==
  {u \in AllUpdates :
     /\ "id" \in DOMAIN u => u["id"] \in {ExtraValue, NumberVal}
     /\ "other" \in DOMAIN u => u["other"] = ExtraValue
     /\ ~ ({"id", "other"} \subseteq DOMAIN u)}

NoUpdates == [k \in {} |-> NumberVal]

VARIABLES
  documents,  \* DocumentStore.documents : map[string]Document
  mu,         \* DocumentStore.mu : writer = goroutine that has excluded
              \* new readers (pending or holding), readers = holders of RLock
  pc,         \* where each goroutine is in the operation it runs
  call,       \* the operation each goroutine called last, with its arguments
  frame,      \* each goroutine's locals and return values
  life,       \* history: per identifier, "never" created, "created" by a
              \* successful Create and not deleted since, or "deleted"
  fresh,      \* history, kept for the identifiers in its domain: the record
              \* passed to the successful Create if no write to the
              \* identifier succeeded since
  results,    \* history: what the call of each goroutine a test waits for
              \* returned (the goroutines in its domain)
  net,        \* history: the number of Create calls that have returned nil
              \* less the number of Delete calls that have returned nil
  caller      \* what the caller of the store holds on each goroutine: the
              \* locals of a test, or of a handler of the controller

vars == <<documents, mu, pc, call, frame, life, fresh, results, net, caller>>

NoCall == [op |-> "none", id |-> 0, doc |-> ZeroDoc, updates |-> NoUpdates]

CreateCall(d)           == [op |-> "Create", id |-> d.ID, doc |-> d, updates |-> NoUpdates]
GetCall(k)              == [op |-> "Get", id |-> k, doc |-> ZeroDoc, updates |-> NoUpdates]
DeleteCall(k)           == [op |-> "Delete", id |-> k, doc |-> ZeroDoc, updates |-> NoUpdates]
ListCall                == [op |-> "List", id |-> 0, doc |-> ZeroDoc, updates |-> NoUpdates]
UpdateCall(k, d)        == [op |-> "Update", id |-> k, doc |-> d, updates |-> NoUpdates]
PartialUpdateCall(k, u) == [op |-> "PartialUpdate", id |-> k, doc |-> ZeroDoc, updates |-> u]

WriteOps == {"Create", "Delete", "Update", "PartialUpdate"}
ReadOps  == {"Get", "List"}

\* A goroutine's frame: err and doc/docs are what the operation returns,
\* seen the keys List's range loop has visited.
NoFrame == [err |-> Nil, doc |-> ZeroDoc, docs |-> <<>>, seen |-> {}]

\* the value of fresh for an identifier with no such record
None == [ID |-> 0 - 1, Name |-> 0, Description |-> 0]

\* the entry of results for a goroutine whose call has not returned
NoResult == [call |-> NoCall, err |-> Nil, doc |-> ZeroDoc, docs |-> <<>>]

\* the locals of a caller that keeps none
NoCaller == [kind |-> "none"]

\* history f with v noted for k, if f is kept for k
Note(f, k, v) == IF k \in DOMAIN f THEN [f EXCEPT ![k] = v] ELSE f

\* NewDocumentStore(), nobody running
Init ==
  /\ documents = EmptyMap
  /\ mu = [writer |-> 0, readers |-> {}]
  /\ pc = [p \in Procs |-> "idle"]
  /\ call = [p \in Procs |-> NoCall]
  /\ frame = [p \in Procs |-> NoFrame]
  /\ life = [k \in IDs |-> "never"]
  /\ fresh = [k \in {} |-> None]
  /\ results = [p \in {} |-> NoResult]
  /\ net = 0
  /\ caller = [p \in Procs |-> NoCaller]

\* ------------------------------------------------------------- map helpers
\* _, exists := s.documents[k]
Exists(docs, k) == k \in DOMAIN docs

\* s.documents[k] = d
Store(docs, k, d) == [j \in (DOMAIN docs) \cup {k} |-> IF j = k THEN d ELSE docs[j]]

\* delete(s.documents, k)
Remove(docs, k) == [j \in (DOMAIN docs) \ {k} |-> docs[j]]

\* ------------------------------------------------------------- sync.RWMutex
\* A goroutine is inside the write (read) critical section from the moment
\* Lock (RLock) returns until its deferred Unlock (RUnlock) runs.
InWrite(p) == pc[p] \in {"wcs", "act", "Unlock"}
InRead(p)  == pc[p] \in {"rcs", "RUnlock"}

\* A call: the goroutine enters the method; its first statement is s.mu.Lock()
\* for Create/Delete/Update/PartialUpdate and s.mu.RLock() for Get/List.
Call(p, c) ==
  /\ pc[p] = "idle"
  /\ call' = [call EXCEPT ![p] = c]
  /\ frame' = [frame EXCEPT ![p] = NoFrame]
  /\ pc' = [pc EXCEPT ![p] = IF c.op \in WriteOps THEN "Lock" ELSE "RLock"]
  /\ UNCHANGED <<documents, mu, life, fresh, results, net, caller>>

\* A call from a caller that keeps locals: they become fr as it calls.
CallFrom(p, c, fr) ==
  /\ pc[p] = "idle"
  /\ call' = [call EXCEPT ![p] = c]
  /\ frame' = [frame EXCEPT ![p] = NoFrame]
  /\ pc' = [pc EXCEPT ![p] = IF c.op \in WriteOps THEN "Lock" ELSE "RLock"]
  /\ caller' = [caller EXCEPT ![p] = fr]
  /\ UNCHANGED <<documents, mu, life, fresh, results, net>>

\* What a call hands back: the error, and the record (Get) or the records
\* (List); the other locals are gone.
Returned(p) ==
  [call |-> call[p],
   err  |-> frame[p].err,
   doc  |-> IF call[p].op = "Get" THEN frame[p].doc ELSE ZeroDoc,
   docs |-> frame[p].docs]

\* what the call goroutine p is returning from adds to net
Counted(p) ==
  IF frame[p].err # Nil THEN 0
  ELSE IF call[p].op = "Create" THEN 1
  ELSE IF call[p].op = "Delete" THEN 0 - 1
  ELSE 0

\* the locals of a caller once the call has returned: the test of the
\* service has compared the results and keeps the second store
Resumed(fr) ==
  IF fr.kind = "service"
    THEN [fr EXCEPT !.sc = [svc |-> "none", id |-> 0, doc |-> ZeroDoc,
                            updates |-> NoUpdates],
                    !.want = [err |-> Nil, doc |-> ZeroDoc,
                              list |-> [all |-> {}, n |-> 0]]]
    ELSE fr

\* The return: the frame is popped; a waiting test notes the result.
Return(p) ==
  /\ call' = [call EXCEPT ![p] = NoCall]
  /\ frame' = [frame EXCEPT ![p] = NoFrame]
  /\ results' = IF p \in DOMAIN results
                  THEN [results EXCEPT ![p] = Returned(p)]
                  ELSE results
  /\ net' = net + Counted(p)
  /\ caller' = [caller EXCEPT ![p] = Resumed(caller[p])]

\* Lock as it would be if it did not wait for the writer before it
LockUnguarded(p) ==
  /\ pc[p] = "Lock"
  /\ mu' = [mu EXCEPT !.writer = p]
  /\ pc' = [pc EXCEPT ![p] = IF mu.readers = {} THEN "wcs" ELSE "drain"]
  /\ UNCHANGED <<documents, call, frame, life, fresh, results, net, caller>>

\* s.mu.Lock(): one writer at a time passes; from then on new readers block.
\* It returns at once when no reader holds the lock, else it waits for the
\* readers that hold it to leave.
Lock(p) ==
  /\ pc[p] = "Lock"
  /\ mu.writer = 0
  /\ mu' = [mu EXCEPT !.writer = p]
  /\ pc' = [pc EXCEPT ![p] = IF mu.readers = {} THEN "wcs" ELSE "drain"]
  /\ UNCHANGED <<documents, call, frame, life, fresh, results, net, caller>>

\* (a variant in which the pending writer does not wait for the readers)
LockAcquiredEarly(p) ==
  /\ pc[p] = "drain"
  /\ pc' = [pc EXCEPT ![p] = "wcs"]
  /\ UNCHANGED <<documents, mu, call, frame, life, fresh, results, net, caller>>

\* s.mu.Lock() returns to the pending writer once the last reader has left.
LockAcquired(p) ==
  /\ pc[p] = "drain"
  /\ mu.readers = {}
  /\ pc' = [pc EXCEPT ![p] = "wcs"]
  /\ UNCHANGED <<documents, mu, call, frame, life, fresh, results, net, caller>>

\* RLock as it would be if it did not wait for the writer
RLockUnguarded(p) ==
  /\ pc[p] = "RLock"
  /\ mu' = [mu EXCEPT !.readers = @ \cup {p}]
  /\ pc' = [pc EXCEPT ![p] = "rcs"]
  /\ UNCHANGED <<documents, call, frame, life, fresh, results, net, caller>>

\* RLock as it would be on a plain mutex: a reader waits for other readers
RLockExclusive(p) ==
  /\ pc[p] = "RLock"
  /\ IF mu.writer = 0 /\ mu.readers = {}
       THEN /\ mu' = [mu EXCEPT !.readers = @ \cup {p}]
            /\ pc' = [pc EXCEPT ![p] = "rcs"]
       ELSE /\ mu' = mu
            /\ pc' = [pc EXCEPT ![p] = "rblocked"]
  /\ UNCHANGED <<documents, call, frame, life, fresh, results, net, caller>>

\* s.mu.RLock(): returns at once unless a writer holds or is waiting for the
\* lock, whatever the number of readers; else the reader blocks.
RLock(p) ==
  /\ pc[p] = "RLock"
  /\ IF mu.writer = 0
       THEN /\ mu' = [mu EXCEPT !.readers = @ \cup {p}]
            /\ pc' = [pc EXCEPT ![p] = "rcs"]
       ELSE /\ mu' = mu
            /\ pc' = [pc EXCEPT ![p] = "rblocked"]
  /\ UNCHANGED <<documents, call, frame, life, fresh, results, net, caller>>

\* Unlock as it would be without defer: an early error return keeps the lock
UnlockOnSuccess(p) ==
  /\ pc[p] = "Unlock"
  /\ mu' = IF frame[p].err = Nil
             THEN [writer |-> 0, readers |-> {q \in Procs : pc[q] = "rblocked"}]
             ELSE mu
  /\ pc' = [q \in Procs |-> IF q = p THEN "idle"
                            ELSE IF pc[q] = "rblocked" /\ frame[p].err = Nil
                                   THEN "rcs" ELSE pc[q]]
  /\ Return(p)
  /\ UNCHANGED <<documents, life, fresh>>

\* defer s.mu.Unlock(), then the return: the writer leaves, and every reader
\* that blocked meanwhile is given the read lock.
Unlock(p) ==
  /\ pc[p] = "Unlock"
  /\ mu' = [writer |-> 0, readers |-> {q \in Procs : pc[q] = "rblocked"}]
  /\ pc' = [q \in Procs |-> IF q = p THEN "idle"
                            ELSE IF pc[q] = "rblocked" THEN "rcs" ELSE pc[q]]
  /\ Return(p)
  /\ UNCHANGED <<documents, life, fresh>>

\* RUnlock as it would be without defer: an early error return keeps the lock
RUnlockOnSuccess(p) ==
  /\ pc[p] = "RUnlock"
  /\ mu' = IF frame[p].err = Nil THEN [mu EXCEPT !.readers = @ \ {p}] ELSE mu
  /\ pc' = [pc EXCEPT ![p] = "idle"]
  /\ Return(p)
  /\ UNCHANGED <<documents, life, fresh>>

\* defer s.mu.RUnlock(), then the return
RUnlock(p) ==
  /\ pc[p] = "RUnlock"
  /\ mu' = [mu EXCEPT !.readers = @ \ {p}]
  /\ pc' = [pc EXCEPT ![p] = "idle"]
  /\ Return(p)
  /\ UNCHANGED <<documents, life, fresh>>

\* ------------------------------------------------------------- Create
\* Create without its existence check
CreateCheckNever(p) ==
  /\ pc[p] = "wcs"
  /\ call[p].op = "Create"
  /\ pc' = [pc EXCEPT ![p] = "act"]
  /\ UNCHANGED <<documents, mu, call, frame, life, fresh, results, net, caller>>

\* Create with its store ahead of its existence check
CreateCheckOverwrites(p) ==
  /\ pc[p] = "wcs"
  /\ call[p].op = "Create"
  /\ IF Exists(documents, call[p].doc.ID)
       THEN /\ frame' = [frame EXCEPT ![p].err = ErrAlreadyExists]
            /\ documents' = Store(documents, call[p].doc.ID, call[p].doc)
            /\ pc' = [pc EXCEPT ![p] = "Unlock"]
       ELSE /\ frame' = frame
            /\ documents' = documents
            /\ pc' = [pc EXCEPT ![p] = "act"]
  /\ UNCHANGED <<mu, call, life, fresh, results, net, caller>>

\* Create as it would be if it refused a record without identifier
CreateCheckValidates(p) ==
  /\ pc[p] = "wcs"
  /\ call[p].op = "Create"
  /\ IF call[p].doc.ID = ZeroDoc.ID
       THEN /\ frame' = [frame EXCEPT ![p].err = "document id is required"]
            /\ pc' = [pc EXCEPT ![p] = "Unlock"]
       ELSE IF Exists(documents, call[p].doc.ID)
       THEN /\ frame' = [frame EXCEPT ![p].err = ErrAlreadyExists]
            /\ pc' = [pc EXCEPT ![p] = "Unlock"]
       ELSE /\ frame' = frame
            /\ pc' = [pc EXCEPT ![p] = "act"]
  /\ UNCHANGED <<documents, mu, call, life, fresh, results, net, caller>>

\* if _, exists := s.documents[doc.ID]; exists { return errors.New(...) }
CreateCheck(p) ==
  /\ pc[p] = "wcs"
  /\ call[p].op = "Create"
  /\ IF Exists(documents, call[p].doc.ID)
       THEN /\ frame' = [frame EXCEPT ![p].err = ErrAlreadyExists]
            /\ pc' = [pc EXCEPT ![p] = "Unlock"]
       ELSE /\ frame' = frame
            /\ pc' = [pc EXCEPT ![p] = "act"]
  /\ UNCHANGED <<documents, mu, call, life, fresh, results, net, caller>>

\* Create's store as it would be if it replaced the map
CreateDocsReplace(docs, doc) == [j \in {doc.ID} |-> doc]

\* s.documents[doc.ID] = doc
CreateDocs(docs, doc) == Store(docs, doc.ID, doc)

\* s.documents[doc.ID] = doc; return nil
CreateStore(p) ==
  /\ pc[p] = "act"
  /\ call[p].op = "Create"
  /\ documents' = CreateDocs(documents, call[p].doc)
  /\ frame' = [frame EXCEPT ![p].err = Nil]
  /\ pc' = [pc EXCEPT ![p] = "Unlock"]
  /\ life' = [life EXCEPT ![call[p].doc.ID] = "created"]
  /\ fresh' = Note(fresh, call[p].doc.ID, call[p].doc)
  /\ UNCHANGED <<mu, call, results, net, caller>>

\* ------------------------------------------------------------- Get
\* Get as it would be if it dropped the record it found
GetResultZero(docs, id) ==
  IF id \in DOMAIN docs
    THEN [doc |-> ZeroDoc, err |-> Nil]
    ELSE [doc |-> ZeroDoc, err |-> ErrNotFound]

\* Get as it would be with the error of Create
GetResultAlreadyExists(docs, id) ==
  IF Exists(docs, id)
    THEN [doc |-> docs[id], err |-> Nil]
    ELSE [doc |-> ZeroDoc, err |-> ErrAlreadyExists]

\* doc, exists := s.documents[id]: the record and nil, or Document{} and
\* the error
GetResult(docs, id) ==
  IF Exists(docs, id)
    THEN [doc |-> docs[id], err |-> Nil]
    ELSE [doc |-> ZeroDoc, err |-> ErrNotFound]

\* Get as it would be if it took the record it returns out of the map
GetReadTakes(p) ==
  /\ pc[p] = "rcs"
  /\ call[p].op = "Get"
  /\ documents' = Remove(documents, call[p].id)
  /\ frame' = [frame EXCEPT ![p].doc = GetResult(documents, call[p].id).doc,
                            ![p].err = GetResult(documents, call[p].id).err]
  /\ pc' = [pc EXCEPT ![p] = "RUnlock"]
  /\ UNCHANGED <<mu, call, life, fresh, results, net, caller>>

\* return doc, nil / return Document{}, errors.New("document not found")

GetRead(p) ==
  /\ pc[p] = "rcs"
  /\ call[p].op = "Get"
  /\ frame' = [frame EXCEPT ![p].doc = GetResult(documents, call[p].id).doc,
                            ![p].err = GetResult(documents, call[p].id).err]
  /\ pc' = [pc EXCEPT ![p] = "RUnlock"]
  /\ UNCHANGED <<documents, mu, call, life, fresh, results, net, caller>>

\* ------------------------------------------------------------- Delete
\* (a variant without the test: deleting an absent key is no error in Go)
DeleteCheckNever(p) ==
  /\ pc[p] = "wcs"
  /\ call[p].op = "Delete"
  /\ frame' = frame
  /\ pc' = [pc EXCEPT ![p] = "act"]
  /\ UNCHANGED <<documents, mu, call, life, fresh, results, net, caller>>

\* if _, exists := s.documents[id]; !exists { return errors.New(...) }
DeleteCheck(p) ==
  /\ pc[p] = "wcs"
  /\ call[p].op = "Delete"
  /\ IF Exists(documents, call[p].id)
       THEN /\ frame' = frame
            /\ pc' = [pc EXCEPT ![p] = "act"]
       ELSE /\ frame' = [frame EXCEPT ![p].err = ErrNotFound]
            /\ pc' = [pc EXCEPT ![p] = "Unlock"]
  /\ UNCHANGED <<documents, mu, call, life, fresh, results, net, caller>>

\* Delete without the delete
DeleteDocsNoop(docs, id) == docs

\* Delete as it would be if it emptied the map
DeleteDocsClear(docs, id) == EmptyMap

\* Delete as it would be if it kept the key with a blank record
DeleteDocsTombstone(docs, id) == Store(docs, id, [ZeroDoc EXCEPT !.ID = id])

\* delete(s.documents, id)
DeleteDocs(docs, id) == Remove(docs, id)

\* delete(s.documents, id); return nil
DeleteRemove(p) ==
  /\ pc[p] = "act"
  /\ call[p].op = "Delete"
  /\ documents' = DeleteDocs(documents, call[p].id)
  /\ frame' = [frame EXCEPT ![p].err = Nil]
  /\ pc' = [pc EXCEPT ![p] = "Unlock"]
  /\ life' = [life EXCEPT ![call[p].id] = "deleted"]
  /\ fresh' = Note(fresh, call[p].id, None)
  /\ UNCHANGED <<mu, call, results, net, caller>>

\* ------------------------------------------------------------- List
\* (a variant that appends the record of each iteration twice)
ListNextTwice(p) ==
  /\ pc[p] = "rcs"
  /\ call[p].op = "List"
  /\ \E k \in (DOMAIN documents) \ frame[p].seen :
       frame' = [frame EXCEPT ![p].docs = Append(Append(@, documents[k]), documents[k]),
                                 ![p].seen = @ \cup {k}]
  /\ UNCHANGED <<documents, mu, pc, call, life, fresh, results, net, caller>>

\* for _, doc := range s.documents { docs = append(docs, doc) }: one
\* iteration, over a key not yet visited; Go fixes no order.
ListNext(p) ==
  /\ pc[p] = "rcs"
  /\ call[p].op = "List"
  /\ \E k \in (DOMAIN documents) \ frame[p].seen :
       frame' = [frame EXCEPT ![p].docs = Append(@, documents[k]),
                                 ![p].seen = @ \cup {k}]
  /\ UNCHANGED <<documents, mu, pc, call, life, fresh, results, net, caller>>

\* (a variant whose loop may end before every key was visited)
ListDoneAnytime(p) ==
  /\ pc[p] = "rcs"
  /\ call[p].op = "List"
  /\ frame' = [frame EXCEPT ![p].seen = {}]
  /\ pc' = [pc EXCEPT ![p] = "RUnlock"]
  /\ UNCHANGED <<documents, mu, call, life, fresh, results, net, caller>>

\* the range loop ends; return docs
ListDone(p) ==
  /\ pc[p] = "rcs"
  /\ call[p].op = "List"
  /\ (DOMAIN documents) \ frame[p].seen = {}
  /\ frame' = [frame EXCEPT ![p].seen = {}]
  /\ pc' = [pc EXCEPT ![p] = "RUnlock"]
  /\ UNCHANGED <<documents, mu, call, life, fresh, results, net, caller>>

\* ------------------------------------------------------------- Update
\* Update without its existence check
UpdateCheckNever(p) ==
  /\ pc[p] = "wcs"
  /\ call[p].op = "Update"
  /\ frame' = frame
  /\ pc' = [pc EXCEPT ![p] = "act"]
  /\ UNCHANGED <<documents, mu, call, life, fresh, results, net, caller>>

\* if _, exists := s.documents[id]; !exists { return errors.New(...) }
UpdateCheck(p) ==
  /\ pc[p] = "wcs"
  /\ call[p].op = "Update"
  /\ IF Exists(documents, call[p].id)
       THEN /\ frame' = frame
            /\ pc' = [pc EXCEPT ![p] = "act"]
       ELSE /\ frame' = [frame EXCEPT ![p].err = ErrNotFound]
            /\ pc' = [pc EXCEPT ![p] = "Unlock"]
  /\ UNCHANGED <<documents, mu, call, life, fresh, results, net, caller>>

\* Update without doc.ID = id
UpdateDocsKeepsId(docs, id, doc) == [j \in (DOMAIN docs) \cup {id} |-> IF j = id THEN doc ELSE docs[j]]

\* Update as it would be if an empty field of the payload kept the stored one
UpdateDocsMerge(docs, id, doc) ==
  Store(docs, id,
        [ID          |-> id,
         Name        |-> IF doc.Name = 0 /\ Exists(docs, id)
                           THEN docs[id].Name ELSE doc.Name,
         Description |-> IF doc.Description = 0 /\ Exists(docs, id)
                           THEN docs[id].Description ELSE doc.Description])

\* doc.ID = id; s.documents[id] = doc
UpdateDocs(docs, id, doc) == Store(docs, id, [doc EXCEPT !.ID = id])

\* doc.ID = id; s.documents[id] = doc; return nil
UpdateStore(p) ==
  /\ pc[p] = "act"
  /\ call[p].op = "Update"
  /\ documents' = UpdateDocs(documents, call[p].id, call[p].doc)
  /\ frame' = [frame EXCEPT ![p].err = Nil]
  /\ pc' = [pc EXCEPT ![p] = "Unlock"]
  /\ fresh' = Note(fresh, call[p].id, None)
  /\ UNCHANGED <<mu, call, life, results, net, caller>>

\* ------------------------------------------------------------- PartialUpdate
\* (a variant that rejects a mapping without entries)
PartialUpdateReadRejectsEmpty(p) ==
  /\ pc[p] = "wcs"
  /\ call[p].op = "PartialUpdate"
  /\ IF Exists(documents, call[p].id) /\ DOMAIN call[p].updates # {}
       THEN /\ frame' = [frame EXCEPT ![p].doc = documents[call[p].id]]
            /\ pc' = [pc EXCEPT ![p] = "act"]
       ELSE /\ frame' = [frame EXCEPT ![p].err = ErrNotFound]
            /\ pc' = [pc EXCEPT ![p] = "Unlock"]
  /\ UNCHANGED <<documents, mu, call, life, fresh, results, net, caller>>

\* doc, exists := s.documents[id]; if !exists { return errors.New(...) }
PartialUpdateRead(p) ==
  /\ pc[p] = "wcs"
  /\ call[p].op = "PartialUpdate"
  /\ IF Exists(documents, call[p].id)
       THEN /\ frame' = [frame EXCEPT ![p].doc = documents[call[p].id]]
            /\ pc' = [pc EXCEPT ![p] = "act"]
       ELSE /\ frame' = [frame EXCEPT ![p].err = ErrNotFound]
            /\ pc' = [pc EXCEPT ![p] = "Unlock"]
  /\ UNCHANGED <<documents, mu, call, life, fresh, results, net, caller>>

\* (a variant without the type assertion: a value that is not a string
\*  converts to the empty string)
HasStringUnasserted(updates, key) ==
  key \in DOMAIN updates

\* if v, ok := updates[key]; ok { if str, ok := v.(string); ok { ... } }
HasString(updates, key) ==
  /\ key \in DOMAIN updates
  /\ updates[key].kind = "string"

\* (a variant that starts from an empty record instead of the stored one)
ApplyUpdatesFromZero(doc, updates) ==
  [ID          |-> doc.ID,
   Name        |-> IF HasString(updates, "name")
                     THEN updates["name"].v ELSE 0,
   Description |-> IF HasString(updates, "description")
                     THEN updates["description"].v ELSE 0]

\* (a variant with a third assignment, to doc.ID)
ApplyUpdatesWithId(doc, updates) ==
  [ID          |-> IF HasString(updates, "id")
                     THEN updates["id"].v ELSE doc.ID,
   Name        |-> IF HasString(updates, "name")
                     THEN updates["name"].v ELSE doc.Name,
   Description |-> IF HasString(updates, "description")
                     THEN updates["description"].v ELSE doc.Description]

\* (a variant that assigns nothing unless every entry is a string of a
\*  recognised field)
ApplyUpdatesAllOrNothing(doc, updates) ==
  IF \A key \in DOMAIN updates :
       key \in {"name", "description"} /\ updates[key].kind = "string"
    THEN [ID          |-> doc.ID,
          Name        |-> IF "name" \in DOMAIN updates
                            THEN updates["name"].v ELSE doc.Name,
          Description |-> IF "description" \in DOMAIN updates
                            THEN updates["description"].v ELSE doc.Description]
    ELSE doc

\* (a variant whose second assignment is an else branch of the first: a
\*  description is assigned only when no name was)
ApplyUpdatesElseIf(doc, updates) ==
  [ID          |-> doc.ID,
   Name        |-> IF HasString(updates, "name")
                     THEN updates["name"].v ELSE doc.Name,
   Description |-> IF ~HasString(updates, "name") /\ HasString(updates, "description")
                     THEN updates["description"].v ELSE doc.Description]

\* the two type-checked assignments to doc.Name and doc.Description
ApplyUpdates(doc, updates) ==
  [ID          |-> doc.ID,
   Name        |-> IF HasString(updates, "name")
                     THEN updates["name"].v ELSE doc.Name,
   Description |-> IF HasString(updates, "description")
                     THEN updates["description"].v ELSE doc.Description]

\* (a variant without s.documents[id] = doc: the assignments are made to
\*  the copy the map lookup gave)
PartialUpdateStoreForgets(p) ==
  /\ pc[p] = "act"
  /\ call[p].op = "PartialUpdate"
  /\ frame' = [frame EXCEPT ![p].err = Nil,
                            ![p].doc = ApplyUpdates(frame[p].doc, call[p].updates)]
  /\ pc' = [pc EXCEPT ![p] = "Unlock"]
  /\ UNCHANGED <<documents, mu, call, life, fresh, results, net, caller>>

\* the assignments to doc; s.documents[id] = doc; return nil
PartialUpdateStore(p) ==
  /\ pc[p] = "act"
  /\ call[p].op = "PartialUpdate"
  /\ documents' = Store(documents, call[p].id, ApplyUpdates(frame[p].doc, call[p].updates))
  /\ frame' = [frame EXCEPT ![p].err = Nil,
                            ![p].doc = ApplyUpdates(frame[p].doc, call[p].updates)]
  /\ pc' = [pc EXCEPT ![p] = "Unlock"]
  /\ fresh' = Note(fresh, call[p].id, None)
  /\ UNCHANGED <<mu, call, life, results, net, caller>>

\* ------------------------------------------------------------- the program
\* The handlers run one goroutine per request, so any number of calls are in
\* flight at once.  Spec: NumProcs goroutines, each calling any operation
\* again and again, with one argument of each shape per identifier.
NiceDoc(k) == [ID |-> k, Name |-> MaxText, Description |-> MaxText]

\* a payload whose id is not the path's id
OtherDoc(k) == [ID |-> (k + 1) % (MaxId + 1), Name |-> 0, Description |-> MaxText]

NameUpdate == [k \in {"name"} |-> StringVal(0)]

ConcCalls ==
  {CreateCall(NiceDoc(k)) : k \in IDs} \cup
  {GetCall(k) : k \in IDs} \cup
  {DeleteCall(k) : k \in IDs} \cup
  {ListCall} \cup
  {UpdateCall(k, OtherDoc(k)) : k \in IDs} \cup
  {PartialUpdateCall(k, NameUpdate) : k \in IDs}

Step(p) ==
  \/ Lock(p) \/ LockAcquired(p) \/ RLock(p) \/ Unlock(p) \/ RUnlock(p)
  \/ CreateCheck(p) \/ CreateStore(p)
  \/ GetRead(p)
  \/ DeleteCheck(p) \/ DeleteRemove(p)
  \/ ListNext(p) \/ ListDone(p)
  \/ UpdateCheck(p) \/ UpdateStore(p)
  \/ PartialUpdateRead(p) \/ PartialUpdateStore(p)

Next ==
  \E p \in Procs :
    \/ \E c \in ConcCalls : Call(p, c)
    \/ Step(p)

Spec == Init /\ [][Next]_vars

\* SeqSpec: one goroutine calling the store as the unit tests do, one call
\* after the other, with every argument the bounds allow.
Main == 1

SeqCalls ==
  {CreateCall(d) : d \in Document} \cup
  {GetCall(k) : k \in IDs} \cup
  {DeleteCall(k) : k \in IDs} \cup
  {ListCall} \cup
  {UpdateCall(k, d) : k \in IDs, d \in Document} \cup
  {PartialUpdateCall(k, u) : k \in IDs, u \in Updates}

SeqNext ==
  \/ \E c \in SeqCalls : Call(Main, c)
  \/ Lock(Main) \/ RLock(Main) \/ Unlock(Main) \/ RUnlock(Main)
  \/ CreateCheck(Main) \/ CreateStore(Main)
  \/ GetRead(Main)
  \/ DeleteCheck(Main) \/ DeleteRemove(Main)
  \/ ListNext(Main) \/ ListDone(Main)
  \/ UpdateCheck(Main) \/ UpdateStore(Main)
  \/ PartialUpdateRead(Main) \/ PartialUpdateStore(Main)

SeqSpec == Init /\ [][SeqNext]_vars

\* FreshSpec: SeqSpec with the history fresh kept for every identifier, and
\* updates maps that hold recognized fields only.
InitFresh ==
  /\ documents = EmptyMap
  /\ mu = [writer |-> 0, readers |-> {}]
  /\ pc = [p \in Procs |-> "idle"]
  /\ call = [p \in Procs |-> NoCall]
  /\ frame = [p \in Procs |-> NoFrame]
  /\ life = [k \in IDs |-> "never"]
  /\ fresh = [k \in IDs |-> None]
  /\ results = [p \in {} |-> NoResult]
  /\ net = 0
  /\ caller = [p \in Procs |-> NoCaller]

FreshCalls ==
  {c \in SeqCalls : DOMAIN c.updates \subseteq {"name", "description"}}

FreshNext ==
  \/ \E c \in FreshCalls : Call(Main, c)
  \/ Lock(Main) \/ RLock(Main) \/ Unlock(Main) \/ RUnlock(Main)
  \/ CreateCheck(Main) \/ CreateStore(Main)
  \/ GetRead(Main)
  \/ DeleteCheck(Main) \/ DeleteRemove(Main)
  \/ ListNext(Main) \/ ListDone(Main)
  \/ UpdateCheck(Main) \/ UpdateStore(Main)
  \/ PartialUpdateRead(Main) \/ PartialUpdateStore(Main)

FreshSpec == InitFresh /\ [][FreshNext]_vars

\* LockSpec: the goroutines of Spec, all working on one identifier.
LockCalls == {c \in ConcCalls : c.id = 0}

LockNext ==
  \E p \in Procs :
    \/ \E c \in LockCalls : Call(p, c)
    \/ Step(p)

LockSpec == Init /\ [][LockNext]_vars

\* LiveSpec: LockSpec under the scheduling Go gives.  Every goroutine that
\* can take a step eventually does (weak fairness), and a goroutine waiting
\* in Lock is eventually handed the mutex however often others take it first
\* (sync.Mutex hands over to the longest waiter: strong fairness).  Nothing
\* obliges a goroutine to make another call.
LiveSpec ==
  /\ Init
  /\ [][LockNext]_vars
  /\ \A p \in Procs : WF_vars(Step(p)) /\ SF_vars(Lock(p))

\* SameCreateSpec: the goroutines of a test each call Create once, all with
\* the same identifier, on a new store; the test waits for them.
InitWaited ==
  /\ documents = EmptyMap
  /\ mu = [writer |-> 0, readers |-> {}]
  /\ pc = [p \in Procs |-> "idle"]
  /\ call = [p \in Procs |-> NoCall]
  /\ frame = [p \in Procs |-> NoFrame]
  /\ life = [k \in IDs |-> "never"]
  /\ fresh = [k \in {} |-> None]
  /\ results = [p \in Procs |-> NoResult]
  /\ net = 0
  /\ caller = [p \in Procs |-> NoCaller]

\* the identifiers of the calls made so far
CalledIds ==
  {call[q].id : q \in {r \in Procs : call[r].op # "none"}} \cup
  {results[q].call.id : q \in {r \in Procs : results[r] # NoResult}}

SameCreateCall(p) ==
  /\ results[p] = NoResult
  /\ \E d \in Document :
       /\ CalledIds \subseteq {d.ID}
       /\ Call(p, CreateCall(d))

SameCreateNext ==
  \E p \in Procs :
    \/ SameCreateCall(p)
    \/ Lock(p) \/ CreateCheck(p) \/ CreateStore(p) \/ Unlock(p)

SameCreateSpec == InitWaited /\ [][SameCreateNext]_vars

\* DistinctCreateSpec: TestDocumentStore_ConcurrentAccess.  The goroutines
\* but the last each call Create once, with identifiers that differ; the
\* last one is the test: when no Create is running it calls List, and no
\* Create starts after that.
Lister   == NumProcs
Creators == Procs \ {Lister}

DistinctCreateCall(p) ==
  /\ p \in Creators
  /\ results[p] = NoResult
  /\ call[Lister].op = "none" /\ results[Lister] = NoResult
  /\ \E d \in Document :
       /\ d.ID \notin CalledIds
       /\ Call(p, CreateCall(d))

ListAfterCall(p) ==
  /\ p = Lister
  /\ results[p] = NoResult
  /\ \A q \in Creators : pc[q] = "idle"
  /\ Call(p, ListCall)

DistinctCreateNext ==
  \E p \in Procs :
    \/ DistinctCreateCall(p) \/ ListAfterCall(p)
    \/ Lock(p) \/ CreateCheck(p) \/ CreateStore(p) \/ Unlock(p)
    \/ RLock(p) \/ ListNext(p) \/ ListDone(p) \/ RUnlock(p)

DistinctCreateSpec == InitWaited /\ [][DistinctCreateNext]_vars

\* ------------------------------------------------------------- properties
\* the goroutines whose call has returned (under InitWaited)
Done == {p \in Procs : results[p] # NoResult}

Quiescent == \A p \in Procs : pc[p] = "idle"

\* C1: when the Create calls of a test, all with one identifier k absent at
\* the start, have returned, exactly one of them returned nil, every other
\* one returned "document already exists", and the record stored under k is
\* the one the successful call passed (SameCreateSpec, any interleaving).
C1_OneCreateWins ==
  (Quiescent /\ Done # {}) =>
    \E w \in Done :
      /\ results[w].err = Nil
      /\ \A q \in Done \ {w} : results[q].err = ErrAlreadyExists
      /\ Exists(documents, results[w].call.id)
      /\ documents[results[w].call.id] = results[w].call.doc

\* all NumProcs calls have returned, and a losing call passed another record
\* than the winning one
C1_Witness ==
  /\ Quiescent
  /\ Done = Procs
  /\ \E w \in Procs, q \in Procs :
       /\ results[w].err = Nil
       /\ results[q].err = ErrAlreadyExists
       /\ results[q].call.doc # results[w].call.doc

\* C2: Create calls with pairwise distinct identifiers on a new store all
\* return nil, and a List called after they returned returns exactly their
\* records (DistinctCreateSpec, any interleaving).
C2_DistinctCreatesListed ==
  /\ \A p \in Done \cap Creators : results[p].err = Nil
  /\ results[Lister] # NoResult =>
       /\ results[Lister].err = Nil
       /\ Len(results[Lister].docs) = Cardinality(Done \cap Creators)
       /\ \A p \in Done \cap Creators :
            \E i \in 1..Len(results[Lister].docs) :
              results[Lister].docs[i] = results[p].call.doc

\* every creator has returned and List has returned after them
C2_Witness ==
  /\ Done = Procs
  /\ Len(results[Lister].docs) = NumProcs - 1

\* C3: a goroutine inside the critical section of Create, Update,
\* PartialUpdate or Delete is alone: no other writer and no Get or List is
\* inside its critical section.
C3_LockDiscipline ==
  \A p \in Procs :
    /\ InWrite(p) => call[p].op \in WriteOps
    /\ InRead(p) => call[p].op \in ReadOps
    /\ InWrite(p) => \A q \in Procs \ {p} : ~InWrite(q) /\ ~InRead(q)

\* a writer is inside while another writer and a reader wait for it
C3_Witness ==
  \E p \in Procs, q \in Procs, r \in Procs :
    /\ InWrite(p)
    /\ pc[q] = "Lock"
    /\ pc[r] = "rblocked"

\* C4: a reader waits in RLock only while a writer holds the lock or is
\* acquiring it, never for another reader; so several Get/List hold the lock
\* together (the witness).
C4_ReadersShare ==
  \A p \in Procs :
    pc[p] = "rblocked" =>
      /\ mu.writer # 0
      /\ mu.writer # p
      /\ pc[mu.writer] = "drain" \/ InWrite(mu.writer)

\* two readers hold the lock at once, no writer about
C4_Witness ==
  \E p \in Procs, q \in Procs :
    /\ p # q
    /\ InRead(p) /\ InRead(q)
    /\ {p, q} \subseteq mu.readers
    /\ mu.writer = 0

\* C5: the lock is held only by goroutines that are inside an operation:
\* every return, the early error returns too, has released it, so with no
\* operation in flight nobody holds it and the next call can take it.
C5_LockReleased ==
  /\ mu.writer # 0 => (pc[mu.writer] = "drain" \/ InWrite(mu.writer))
  /\ \A r \in mu.readers : InRead(r)
  /\ Quiescent => (mu.writer = 0 /\ mu.readers = {})

\* an operation on its error path is about to return while another waits
\* for the lock it holds
C5_Witness ==
  \E p \in Procs, q \in Procs :
    /\ pc[p] = "Unlock"
    /\ frame[p].err # Nil
    /\ pc[q] = "Lock"

\* C6: under LiveSpec's scheduling every call returns.
C6_EveryCallReturns ==
  \A p \in Procs : (pc[p] # "idle") ~> (pc[p] = "idle")

\* a writer waits for a reader to leave while another reader waits for the
\* writer
C6_Witness ==
  \E p \in Procs, q \in Procs, r \in Procs :
    /\ pc[p] = "drain"
    /\ pc[q] = "rblocked"
    /\ InRead(r)

\* the step in which goroutine p leaves pc value a
Leaves(p, a) == pc[p] = a /\ pc'[p] # a

\* C7: while an identifier k is created and not deleted, a Create with
\* identifier k, whatever its other fields, returns "document already
\* exists" and no step of it changes the map.
C7_Uniqueness ==
  [][\A p \in Procs :
       /\ (Leaves(p, "wcs") /\ call[p].op = "Create"
             /\ life[call[p].doc.ID] = "created")
            => /\ pc'[p] = "Unlock"
               /\ frame'[p].err = ErrAlreadyExists
               /\ documents' = documents
       /\ (Leaves(p, "Unlock") /\ call[p].op = "Create"
             /\ frame[p].err = ErrAlreadyExists)
            => /\ documents' = documents
               /\ pc'[p] = "idle"]_vars

\* a failed Create whose record differs from the stored one in its other
\* fields
C7_Witness ==
  \E p \in Procs :
    /\ pc[p] = "Unlock"
    /\ call[p].op = "Create"
    /\ frame[p].err = ErrAlreadyExists
    /\ Exists(documents, call[p].doc.ID)
    /\ documents[call[p].doc.ID].Name # call[p].doc.Name
    /\ documents[call[p].doc.ID].Description # call[p].doc.Description

\* C8: a Get of an identifier k whose record r was stored by a successful
\* Create with no write to k since returns nil and a record equal to r in
\* ID, Name and Description.
C8_ReadAfterWrite ==
  \A p \in Procs :
    (pc[p] = "RUnlock" /\ call[p].op = "Get"
       /\ call[p].id \in DOMAIN fresh /\ fresh[call[p].id] # None) =>
      /\ frame[p].err = Nil
      /\ frame[p].doc.ID = fresh[call[p].id].ID
      /\ frame[p].doc.Name = fresh[call[p].id].Name
      /\ frame[p].doc.Description = fresh[call[p].id].Description

\* such a Get is returning a record that is not all zero
C8_Witness ==
  \E p \in Procs :
    /\ pc[p] = "RUnlock"
    /\ call[p].op = "Get"
    /\ call[p].id \in DOMAIN fresh
    /\ fresh[call[p].id] # None
    /\ fresh[call[p].id].Name # 0
    /\ fresh[call[p].id].ID # 0

\* C9: while an identifier k is deleted and not created again, Get(k)
\* returns "document not found" and List returns no record with ID k.
C9_DeleteThenAbsent ==
  \A p \in Procs :
    /\ (pc[p] = "RUnlock" /\ call[p].op = "Get" /\ life[call[p].id] = "deleted")
         => frame[p].err = ErrNotFound
    /\ (pc[p] = "RUnlock" /\ call[p].op = "List")
         => \A i \in 1..Len(frame[p].docs) :
              life[frame[p].docs[i].ID] # "deleted"

\* a Get of a deleted identifier is returning
C9_Witness ==
  \E p \in Procs :
    /\ pc[p] = "RUnlock"
    /\ call[p].op = "Get"
    /\ life[call[p].id] = "deleted"

\* C10: an Update(k, r') of a present k succeeds, leaves under k a record
\* whose ID is k, and neither adds, removes nor changes any other key (the
\* key r'.ID in particular).
C10_IdPinning ==
  [][\A p \in Procs :
       /\ (Leaves(p, "wcs") /\ call[p].op = "Update"
             /\ Exists(documents, call[p].id))
            => pc'[p] = "act" /\ documents' = documents
       /\ (Leaves(p, "act") /\ call[p].op = "Update")
            => /\ frame'[p].err = Nil
               /\ DOMAIN documents' = DOMAIN documents
               /\ call[p].id \in DOMAIN documents'
               /\ documents'[call[p].id].ID = call[p].id
               /\ \A j \in DOMAIN documents \ {call[p].id} :
                    documents'[j] = documents[j]]_vars

\* an Update whose payload carries another identifier has succeeded, and
\* that other identifier is absent
C10_Witness ==
  \E p \in Procs :
    /\ pc[p] = "Unlock"
    /\ call[p].op = "Update"
    /\ frame[p].err = Nil
    /\ call[p].doc.ID # call[p].id
    /\ ~Exists(documents, call[p].doc.ID)

\* ------------------------------------------------- PartialUpdate, field by field
\* goroutine p takes the step of PartialUpdate that writes the record back
PartialUpdateActs(p) == Leaves(p, "act") /\ call[p].op = "PartialUpdate"

\* goroutine p takes the step of PartialUpdate that looks the identifier up,
\* and the identifier is present
PartialUpdateFinds(p) ==
  /\ Leaves(p, "wcs")
  /\ call[p].op = "PartialUpdate"
  /\ Exists(documents, call[p].id)

\* the call of goroutine p, a PartialUpdate, is returning nil
PartialUpdateDone(p) ==
  /\ pc[p] = "Unlock"
  /\ call[p].op = "PartialUpdate"
  /\ frame[p].err = Nil
  /\ Exists(documents, call[p].id)

\* the entry under key is the only entry of updates, and its value is a string
OnlyString(updates, key) ==
  /\ DOMAIN updates = {key}
  /\ updates[key].kind = "string"

\* C11: PartialUpdate(k, {name: v}) on a present k, v a string, stores the
\* name v and leaves the description and the id as they were;
\* PartialUpdate(k, {description: v}) stores the description v and leaves the
\* name and the id as they were.  Both return nil.
C11_PartialUpdateIsolation ==
  [][\A p \in Procs :
       /\ PartialUpdateFinds(p) => pc'[p] = "act"
       /\ (PartialUpdateActs(p) /\ Exists(documents, call[p].id)) =>
            LET k == call[p].id
                u == call[p].updates
            IN  /\ frame'[p].err = Nil
                /\ k \in DOMAIN documents'
                /\ OnlyString(u, "name") =>
                     /\ documents'[k].Name = u["name"].v
                     /\ documents'[k].Description = documents[k].Description
                     /\ documents'[k].ID = documents[k].ID
                /\ OnlyString(u, "description") =>
                     /\ documents'[k].Description = u["description"].v
                     /\ documents'[k].Name = documents[k].Name
                     /\ documents'[k].ID = documents[k].ID]_vars

\* a PartialUpdate of the name alone has succeeded on a record whose
\* description is another text than the new name
C11_Witness ==
  \E p \in Procs :
    /\ PartialUpdateDone(p)
    /\ OnlyString(call[p].updates, "name")
    /\ documents[call[p].id].Name = call[p].updates["name"].v
    /\ documents[call[p].id].Description # call[p].updates["name"].v
    /\ documents[call[p].id].Description # 0

\* C12: PartialUpdate(k, {}) on a present k returns nil and leaves the whole
\* mapping, so the record under k in every field, as it was.
C12_EmptyUpdates ==
  [][\A p \in Procs :
       /\ (PartialUpdateFinds(p) /\ DOMAIN call[p].updates = {}) =>
            /\ pc'[p] = "act"
            /\ frame'[p].err = Nil
            /\ documents' = documents
       /\ (PartialUpdateActs(p) /\ DOMAIN call[p].updates = {}) =>
            /\ frame'[p].err = Nil
            /\ documents' = documents]_vars

\* a PartialUpdate without entries has succeeded on a record with a name and
\* a description
C12_Witness ==
  \E p \in Procs :
    /\ PartialUpdateDone(p)
    /\ call[p].updates = NoUpdates
    /\ documents[call[p].id].Name # 0
    /\ documents[call[p].id].Description # 0

\* the entry under key, if there is one, is not one PartialUpdate assigns
Ignored(updates, key) ==
  key \in DOMAIN updates => updates[key].kind # "string"

\* C13: in a PartialUpdate on a present id, an entry of a recognised field
\* whose value is not a string, and an entry of an unrecognised field, are
\* ignored without error: the call returns nil, the name changes only by a
\* string entry "name", the description only by a string entry
\* "description", and a mapping of ignored entries alone changes nothing.
C13_IgnoredEntries ==
  [][\A p \in Procs :
       /\ PartialUpdateFinds(p) => pc'[p] = "act" /\ frame'[p].err = Nil
       /\ (PartialUpdateActs(p) /\ Exists(documents, call[p].id)) =>
            LET k == call[p].id
                u == call[p].updates
            IN  /\ frame'[p].err = Nil
                /\ k \in DOMAIN documents'
                /\ Ignored(u, "name") => documents'[k].Name = documents[k].Name
                /\ Ignored(u, "description") =>
                     documents'[k].Description = documents[k].Description
                /\ (Ignored(u, "name") /\ Ignored(u, "description")) =>
                     documents' = documents]_vars

\* a PartialUpdate with a name that is not a string and an entry of an
\* unrecognised field has succeeded on a record with a name
C13_Witness ==
  \E p \in Procs :
    /\ PartialUpdateDone(p)
    /\ "name" \in DOMAIN call[p].updates
    /\ call[p].updates["name"] = NumberVal
    /\ "other" \in DOMAIN call[p].updates
    /\ documents[call[p].id].Name # 0

\* C14: PartialUpdate never modifies the identifier: on a present k, with a
\* mapping that has an entry "id" of any value, the record under k keeps the
\* id k, and no record appears under another identifier.
C14_IdUntouched ==
  [][\A p \in Procs :
       (PartialUpdateActs(p) /\ Exists(documents, call[p].id)
          /\ "id" \in DOMAIN call[p].updates) =>
            /\ DOMAIN documents' = DOMAIN documents
            /\ documents'[call[p].id].ID = documents[call[p].id].ID
            /\ documents'[call[p].id].ID = call[p].id
            /\ \A j \in DOMAIN documents \ {call[p].id} :
                 documents'[j] = documents[j]]_vars

\* a PartialUpdate has succeeded whose entry "id" is a string naming an
\* identifier under which nothing is stored
C14_Witness ==
  \E p \in Procs :
    /\ PartialUpdateDone(p)
    /\ "id" \in DOMAIN call[p].updates
    /\ call[p].updates["id"].kind = "string"
    /\ call[p].updates["id"].v # call[p].id
    /\ call[p].updates["id"].v \in IDs
    /\ ~Exists(documents, call[p].updates["id"].v)

\* ------------------------------------------------------- errors and presence
\* the operations that fail on an absent identifier after s.mu.Lock()
FindOps == {"Update", "PartialUpdate", "Delete"}

\* C15: Get, Update, PartialUpdate and Delete return "document not found"
\* exactly when the identifier is absent at the moment the operation takes
\* effect, and nil exactly when it is present: the lookup under the lock
\* decides, and the identifier a writer found is still present when it writes.
C15_NotFoundIffAbsent ==
  [][\A p \in Procs :
       /\ (Leaves(p, "wcs") /\ call[p].op \in FindOps) =>
            IF Exists(documents, call[p].id)
              THEN pc'[p] = "act" /\ frame'[p].err = Nil
              ELSE pc'[p] = "Unlock" /\ frame'[p].err = ErrNotFound
       /\ (Leaves(p, "act") /\ call[p].op \in FindOps) =>
            /\ Exists(documents, call[p].id)
            /\ pc'[p] = "Unlock"
            /\ frame'[p].err = Nil
       /\ (Leaves(p, "rcs") /\ call[p].op = "Get") =>
            /\ pc'[p] = "RUnlock"
            /\ frame'[p].err = IF Exists(documents, call[p].id)
                                 THEN Nil ELSE ErrNotFound
       /\ (Leaves(p, "Unlock") \/ Leaves(p, "RUnlock")) =>
            Returned(p).err = frame[p].err]_vars

\* a Delete is returning nil while another goroutine's Update of the same
\* identifier, called before the Delete took effect, waits for the lock
C15_Witness ==
  \E p, q \in Procs :
    /\ p # q
    /\ pc[p] = "Unlock" /\ call[p].op = "Delete" /\ frame[p].err = Nil
    /\ pc[q] \in {"Lock", "drain"} /\ call[q].op = "Update"
    /\ call[q].id = call[p].id
    /\ ~Exists(documents, call[q].id)

\* the call of goroutine p is returning the error e
Failing(p, e) ==
  /\ pc[p] \in {"Unlock", "RUnlock"}
  /\ frame[p].err = e

\* C16: a call that returns an error ("document already exists" from Create,
\* "document not found" from Get, Update, PartialUpdate, Delete) has no
\* effect: the mapping changes only in the writing step of a call, that step
\* ends in a nil result, and no step of a call whose result is an error
\* changes the mapping, so the mapping after the call is the one before it.
C16_ErrorsHaveNoEffect ==
  [][/\ documents' # documents =>
          \E p \in Procs : /\ Leaves(p, "act")
                            /\ pc'[p] = "Unlock"
                            /\ frame'[p].err = Nil
     /\ \A p \in Procs :
          /\ (frame[p].err # Nil \/ frame'[p].err # Nil) => documents' = documents
          /\ frame'[p].err # Nil => pc'[p] \in {"Unlock", "RUnlock"}
          /\ (Leaves(p, "wcs") /\ pc'[p] = "Unlock") => frame'[p].err # Nil
          /\ (Leaves(p, "Unlock") \/ Leaves(p, "RUnlock")) =>
               /\ Returned(p).err = frame[p].err
               /\ documents' = documents]_vars

\* a Create is returning "document already exists" with a record other than
\* the stored one, which is still there
C16_Witness ==
  \E p \in Procs :
    /\ Failing(p, ErrAlreadyExists)
    /\ call[p].op = "Create"
    /\ Exists(documents, call[p].doc.ID)
    /\ documents[call[p].doc.ID] # call[p].doc

\* ------------------------------------------------------------------- List
\* the call of goroutine p, a List, is returning
Listed(p) == pc[p] = "RUnlock" /\ call[p].op = "List"

\* C17: the length of the sequence List returns is the number of Create
\* calls that have returned nil less the number of Delete calls that have
\* returned nil, in every history of concurrent calls; so it is at every
\* quiescent point, where List is the only call in flight.
C17_ListCardinality ==
  \A p \in Procs : Listed(p) => Len(frame[p].docs) = net

\* a List, the only call in flight, is returning one record after Creates of
\* both identifiers and a Delete have succeeded
C17_Witness ==
  \E p \in Procs :
    /\ Listed(p)
    /\ \A q \in Procs \ {p} : pc[q] = "idle"
    /\ Len(frame[p].docs) = 1
    /\ \E k \in IDs : life[k] = "deleted"

\* the positions of the sequence docs that hold the record doc
Positions(docs, doc) == {i \in 1..Len(docs) : docs[i] = doc}

\* C18: List never fails and returns exactly the records of the mapping:
\* every stored record once, no record that is not stored, and the empty
\* sequence for an empty store.
C18_ListExact ==
  \A p \in Procs :
    Listed(p) =>
      /\ frame[p].err = Nil
      /\ Len(frame[p].docs) = Cardinality(DOMAIN documents)
      /\ \A k \in DOMAIN documents :
           Cardinality(Positions(frame[p].docs, documents[k])) = 1
      /\ \A i \in 1..Len(frame[p].docs) :
           \E k \in DOMAIN documents : frame[p].docs[i] = documents[k]
      /\ documents = EmptyMap => frame[p].docs = <<>>

\* a List is returning the records of a store that holds one under every
\* identifier, and these differ in more than the identifier
C18_Witness ==
  \E p \in Procs :
    /\ Listed(p)
    /\ DOMAIN documents = IDs
    /\ Len(frame[p].docs) = Cardinality(IDs)
    /\ frame[p].docs[1].Name # frame[p].docs[2].Name

\* ------------------------------------------------------------- lifecycle
\* identifier k is present exactly when a Create of k has succeeded and no
\* Delete of k has succeeded since
Lifecycle == \A k \in IDs : Exists(documents, k) <=> life[k] = "created"

\* C19: in every reachable state an identifier is present if and only if
\* some Create of it has succeeded and no Delete of it has succeeded since;
\* no step of an Update or a PartialUpdate inserts or removes an identifier.
C19_Lifecycle ==
  [][/\ Lifecycle'
     /\ \A p \in Procs :
          (call[p].op \in {"Update", "PartialUpdate"} /\ pc'[p] # pc[p]) =>
            DOMAIN documents' = DOMAIN documents]_vars

\* an Update of an identifier that was created and deleted is returning
\* "document not found", with the identifier still absent and another present
C19_Witness ==
  \E p \in Procs :
    /\ Failing(p, ErrNotFound)
    /\ call[p].op = "Update"
    /\ life[call[p].id] = "deleted"
    /\ ~Exists(documents, call[p].id)
    /\ \E k \in IDs : Exists(documents, k)

\* ------------------------------------------------------------- error kinds
\* the result of every call in flight is nil or one of the two errors, each
\* from its own operations; List has no error
ErrorKinds ==
  \A p \in Procs :
    /\ frame[p].err \in {Nil, ErrAlreadyExists, ErrNotFound}
    /\ frame[p].err = ErrAlreadyExists => call[p].op = "Create"
    /\ frame[p].err = ErrNotFound =>
         call[p].op \in {"Get", "Update", "PartialUpdate", "Delete"}
    /\ call[p].op = "List" => frame[p].err = Nil

\* C20: the store produces two kinds of error, "document already exists"
\* from Create alone and "document not found" from Get, Update,
\* PartialUpdate and Delete alone; List returns no error; and after an error
\* the store is usable as if the failed call had not been made: the call
\* returns with the lock released, the caller free to call again, and the
\* mapping the one the call found.
C20_ErrorKinds ==
  [][/\ ErrorKinds'
     /\ \A p \in Procs :
          /\ (frame[p].err = Nil /\ frame'[p].err # Nil) =>
               /\ documents' = documents
               /\ mu' = mu
               /\ pc'[p] \in {"Unlock", "RUnlock"}
          /\ ((Leaves(p, "Unlock") \/ Leaves(p, "RUnlock")) /\ frame[p].err # Nil) =>
               /\ Returned(p).err = frame[p].err
               /\ documents' = documents
               /\ mu'.writer # p /\ p \notin mu'.readers
               /\ pc'[p] = "idle"
               /\ call'[p] = NoCall]_vars

\* a PartialUpdate of an absent identifier is returning "document not
\* found" on a store that holds a record
C20_Witness ==
  \E p \in Procs :
    /\ Failing(p, ErrNotFound)
    /\ call[p].op = "PartialUpdate"
    /\ ~Exists(documents, call[p].id)
    /\ documents # EmptyMap

\* ------------------------------------------------------ Update, field by field
\* C29: Update is a full replacement: after Update(k, r) succeeds on a
\* present k the stored name is r's name and the stored description r's
\* description, whatever they were before, empty strings included.
C29_FullReplacement ==
  [][\A p \in Procs :
       (Leaves(p, "act") /\ call[p].op = "Update" /\ Exists(documents, call[p].id)) =>
         /\ frame'[p].err = Nil
         /\ call[p].id \in DOMAIN documents'
         /\ documents'[call[p].id].Name = call[p].doc.Name
         /\ documents'[call[p].id].Description = call[p].doc.Description]_vars

\* an Update with an empty name and an empty description has succeeded and
\* the stored fields are empty
C29_Witness ==
  \E p \in Procs :
    /\ pc[p] = "Unlock" /\ call[p].op = "Update" /\ frame[p].err = Nil
    /\ call[p].doc.Name = 0 /\ call[p].doc.Description = 0
    /\ Exists(documents, call[p].id)
    /\ documents[call[p].id].Name = 0
    /\ documents[call[p].id].Description = 0

\* the field of record doc that the entry under key names
Field(doc, key) == IF key = "name" THEN doc.Name ELSE doc.Description

\* C30: PartialUpdate applies its entries independently: in a mapping that
\* mixes valid and ignored entries, each of the fields name and description
\* with a string entry is overwritten by it, and every other field, the id
\* included, keeps its prior value.
C30_IndependentEntries ==
  [][\A p \in Procs :
       (PartialUpdateActs(p) /\ Exists(documents, call[p].id)) =>
         LET k == call[p].id
             u == call[p].updates
         IN  /\ DOMAIN documents' = DOMAIN documents
             /\ documents'[k].ID = documents[k].ID
             /\ \A key \in {"name", "description"} :
                  Field(documents'[k], key) =
                    IF key \in DOMAIN u /\ u[key].kind = "string"
                      THEN u[key].v
                      ELSE Field(documents[k], key)]_vars

\* a PartialUpdate with a string name, a description that is not a string
\* and an entry of an unrecognised field has succeeded: the name is the new
\* one, the description is still there
C30_Witness ==
  \E p \in Procs :
    /\ PartialUpdateDone(p)
    /\ {"name", "description", "other"} \subseteq DOMAIN call[p].updates
    /\ call[p].updates["name"].kind = "string"
    /\ call[p].updates["description"] = NumberVal
    /\ documents[call[p].id].Name = call[p].updates["name"].v
    /\ documents[call[p].id].Description # 0
    /\ documents[call[p].id].Description # call[p].updates["name"].v

\* ------------------------------------------------------ the scenario test
\* ScenarioSpec: one goroutine, a test that on a new store creates a
\* record, reads it, changes its name, reads it, deletes it, reads it and
\* lists.  The test's locals: the identifier id, the names a and b, the
\* description x, and at, the number of calls made.
ScenarioOps == <<"Create", "Get", "PartialUpdate", "Get", "Delete", "Get", "List">>

ScenarioLength == Len(ScenarioOps)

Scenarios ==
  [kind : {"scenario"}, at : {0}, id : IDs, a : Names, b : Names, x : Descriptions]

\* the n-th call of the test with locals t
ScenarioStep(t, n) ==
  CASE ScenarioOps[n] = "Create" ->
         CreateCall([ID |-> t.id, Name |-> t.a, Description |-> t.x])
    [] ScenarioOps[n] = "PartialUpdate" ->
         PartialUpdateCall(t.id, [k \in {"name"} |-> StringVal(t.b)])
    [] ScenarioOps[n] = "Delete" -> DeleteCall(t.id)
    [] ScenarioOps[n] = "List" -> ListCall
    [] OTHER -> GetCall(t.id)

ScenarioCall(p) ==
  /\ caller[p].at < ScenarioLength
  /\ CallFrom(p, ScenarioStep(caller[p], caller[p].at + 1),
              [caller[p] EXCEPT !.at = @ + 1])

InitScenario ==
  /\ documents = EmptyMap
  /\ mu = [writer |-> 0, readers |-> {}]
  /\ pc = [p \in Procs |-> "idle"]
  /\ call = [p \in Procs |-> NoCall]
  /\ frame = [p \in Procs |-> NoFrame]
  /\ life = [k \in IDs |-> "never"]
  /\ fresh = [k \in {} |-> None]
  /\ results = [p \in {} |-> NoResult]
  /\ net = 0
  /\ \E t \in Scenarios :
       caller = [p \in Procs |-> IF p = Main THEN t ELSE NoCaller]

ScenarioNext ==
  \/ ScenarioCall(Main)
  \/ Lock(Main) \/ RLock(Main) \/ Unlock(Main) \/ RUnlock(Main)
  \/ CreateCheck(Main) \/ CreateStore(Main)
  \/ GetRead(Main)
  \/ PartialUpdateRead(Main) \/ PartialUpdateStore(Main)
  \/ DeleteCheck(Main) \/ DeleteRemove(Main)
  \/ ListDone(Main)

ScenarioSpec == InitScenario /\ [][ScenarioNext]_vars

\* the n-th call of the test is returning
ScenarioAt(n) ==
  /\ pc[Main] \in {"Unlock", "RUnlock"}
  /\ caller[Main].at = n

\* C23: on an empty store Create {id, a, x} succeeds; Get(id) returns
\* exactly that record; PartialUpdate(id, {name: b}) succeeds; Get(id)
\* returns {id, b, x}; Delete(id) succeeds; Get(id) fails with "document
\* not found"; List returns the empty sequence.
C23_Scenario ==
  LET t == caller[Main]
      r == Returned(Main)
  IN  /\ ScenarioAt(1) => r.err = Nil
      /\ ScenarioAt(2) =>
           /\ r.err = Nil
           /\ r.doc = [ID |-> t.id, Name |-> t.a, Description |-> t.x]
      /\ ScenarioAt(3) => r.err = Nil
      /\ ScenarioAt(4) =>
           /\ r.err = Nil
           /\ r.doc = [ID |-> t.id, Name |-> t.b, Description |-> t.x]
      /\ ScenarioAt(5) => r.err = Nil
      /\ ScenarioAt(6) => r.err = ErrNotFound
      /\ ScenarioAt(7) => r.err = Nil /\ r.docs = <<>>

\* the last call of a test with two names and a description is returning
C23_Witness ==
  /\ ScenarioAt(ScenarioLength)
  /\ call[Main].op = "List"
  /\ caller[Main].a # caller[Main].b
  /\ caller[Main].x # 0
  /\ life[caller[Main].id] = "deleted"

\* ------------------------------------------------------------- the service
\* services.documentService: every method returns what the store's method
\* of the same purpose returns.
ServiceMethod(m, k, d, u) == [svc |-> m, id |-> k, doc |-> d, updates |-> u]

NoServiceCall == ServiceMethod("none", 0, ZeroDoc, NoUpdates)

ServiceCalls ==
  {ServiceMethod("CreateDocument", d.ID, d, NoUpdates) : d \in Document} \cup
  {ServiceMethod("GetDocument", k, ZeroDoc, NoUpdates) : k \in IDs} \cup
  {ServiceMethod("ListDocuments", 0, ZeroDoc, NoUpdates)} \cup
  {ServiceMethod("DeleteDocument", k, ZeroDoc, NoUpdates) : k \in IDs} \cup
  {ServiceMethod("UpdateDocument", k, d, NoUpdates) : k \in IDs, d \in Document} \cup
  {ServiceMethod("PartialUpdateDocument", k, ZeroDoc, u) : k \in IDs, u \in Updates}

\* (a variant whose UpdateDocument calls s.store.Create)
DelegateUpdateCreates(sc) ==
  CASE sc.svc = "CreateDocument" -> CreateCall(sc.doc)
    [] sc.svc = "GetDocument" -> GetCall(sc.id)
    [] sc.svc = "ListDocuments" -> ListCall
    [] sc.svc = "DeleteDocument" -> DeleteCall(sc.id)
    [] sc.svc = "UpdateDocument" -> CreateCall([sc.doc EXCEPT !.ID = sc.id])
    [] sc.svc = "PartialUpdateDocument" -> PartialUpdateCall(sc.id, sc.updates)

\* the store call each service method makes
Delegate(sc) ==
  CASE sc.svc = "CreateDocument" -> CreateCall(sc.doc)
    [] sc.svc = "GetDocument" -> GetCall(sc.id)
    [] sc.svc = "ListDocuments" -> ListCall
    [] sc.svc = "DeleteDocument" -> DeleteCall(sc.id)
    [] sc.svc = "UpdateDocument" -> UpdateCall(sc.id, sc.doc)
    [] sc.svc = "PartialUpdateDocument" -> PartialUpdateCall(sc.id, sc.updates)

\* the records of a sequence, and how many there are
Listing(docs) == [all |-> {docs[i] : i \in 1..Len(docs)}, n |-> Len(docs)]

\* what a service method returns of what the store call r returned: an
\* error, a record and an error, or records
ServiceResult(sc, r) ==
  CASE sc.svc = "GetDocument" ->
         [err |-> r.err, doc |-> r.doc, list |-> Listing(<<>>)]
    [] sc.svc = "ListDocuments" ->
         [err |-> Nil, doc |-> ZeroDoc, list |-> Listing(r.docs)]
    [] OTHER ->
         [err |-> r.err, doc |-> ZeroDoc, list |-> Listing(<<>>)]

\* ------------------------------------------------- a method run on its own
\* What a store method does when no other goroutine runs between its Lock
\* and its Unlock: the mapping it leaves and what it returns (List: the
\* records, in no order).
Outcome(docs, e, d, l) == [docs |-> docs, err |-> e, doc |-> d, list |-> l]

Sequential(docs, c) ==
  CASE c.op = "Create" ->
         IF Exists(docs, c.doc.ID)
           THEN Outcome(docs, ErrAlreadyExists, ZeroDoc, Listing(<<>>))
           ELSE Outcome(CreateDocs(docs, c.doc), Nil, ZeroDoc, Listing(<<>>))
    [] c.op = "Get" ->
         Outcome(docs, GetResult(docs, c.id).err, GetResult(docs, c.id).doc,
                 Listing(<<>>))
    [] c.op = "Delete" ->
         IF Exists(docs, c.id)
           THEN Outcome(DeleteDocs(docs, c.id), Nil, ZeroDoc, Listing(<<>>))
           ELSE Outcome(docs, ErrNotFound, ZeroDoc, Listing(<<>>))
    [] c.op = "List" ->
         Outcome(docs, Nil, ZeroDoc,
                 [all |-> {docs[k] : k \in DOMAIN docs},
                  n   |-> Cardinality(DOMAIN docs)])
    [] c.op = "Update" ->
         IF Exists(docs, c.id)
           THEN Outcome(UpdateDocs(docs, c.id, c.doc), Nil, ZeroDoc, Listing(<<>>))
           ELSE Outcome(docs, ErrNotFound, ZeroDoc, Listing(<<>>))
    [] c.op = "PartialUpdate" ->
         IF Exists(docs, c.id)
           THEN Outcome(Store(docs, c.id, ApplyUpdates(docs[c.id], c.updates)),
                        Nil, ZeroDoc, Listing(<<>>))
           ELSE Outcome(docs, ErrNotFound, ZeroDoc, Listing(<<>>))

\* what the call of goroutine p is returning, as Sequential states it
Handed(p) ==
  [err  |-> frame[p].err,
   doc  |-> Returned(p).doc,
   list |-> Listing(Returned(p).docs)]

\* ------------------------------------------------------ the service's tests
\* ServiceSpec: one goroutine, a test that makes any sequence of calls on a
\* service wrapping a new store, and the same calls on a second store
\* without a service.  The test's locals: sc, the service call last made;
\* bare, the mapping of the second store; want, what the second store
\* returned.
ServiceTest(sc, out) ==
  [kind |-> "service", sc |-> sc, bare |-> out.docs,
   want |-> [err |-> out.err, doc |-> out.doc, list |-> out.list]]

\* the call on the second store that goes with service call sc
BareCall(sc) ==
  CASE sc.svc = "CreateDocument" -> CreateCall(sc.doc)
    [] sc.svc = "GetDocument" -> GetCall(sc.id)
    [] sc.svc = "ListDocuments" -> ListCall
    [] sc.svc = "DeleteDocument" -> DeleteCall(sc.id)
    [] sc.svc = "UpdateDocument" -> UpdateCall(sc.id, sc.doc)
    [] sc.svc = "PartialUpdateDocument" -> PartialUpdateCall(sc.id, sc.updates)

ServiceCall(p) ==
  \E sc \in ServiceCalls :
    CallFrom(p, Delegate(sc),
             ServiceTest(sc, Sequential(caller[p].bare, BareCall(sc))))

InitService ==
  /\ documents = EmptyMap
  /\ mu = [writer |-> 0, readers |-> {}]
  /\ pc = [p \in Procs |-> "idle"]
  /\ call = [p \in Procs |-> NoCall]
  /\ frame = [p \in Procs |-> NoFrame]
  /\ life = [k \in IDs |-> "never"]
  /\ fresh = [k \in {} |-> None]
  /\ results = [p \in {} |-> NoResult]
  /\ net = 0
  /\ caller = [p \in Procs |->
                 IF p = Main
                   THEN ServiceTest(NoServiceCall,
                                    Outcome(EmptyMap, Nil, ZeroDoc, Listing(<<>>)))
                   ELSE NoCaller]

ServiceNext ==
  \/ ServiceCall(Main)
  \/ Lock(Main) \/ RLock(Main) \/ Unlock(Main) \/ RUnlock(Main)
  \/ CreateCheck(Main) \/ CreateStore(Main)
  \/ GetRead(Main)
  \/ DeleteCheck(Main) \/ DeleteRemove(Main)
  \/ ListNext(Main) \/ ListDone(Main)
  \/ UpdateCheck(Main) \/ UpdateStore(Main)
  \/ PartialUpdateRead(Main) \/ PartialUpdateStore(Main)

ServiceSpec == InitService /\ [][ServiceNext]_vars

\* C21: the service is a pass-through: for every sequence of calls, the
\* service wrapping a store and a store without a service, given the same
\* calls, return the same results and errors at every call (the records of
\* List compared without their order, which Go leaves open) and end every
\* call in the same mapping.
C21_ServicePassThrough ==
  /\ pc[Main] \in {"Unlock", "RUnlock"} =>
       /\ ServiceResult(caller[Main].sc, Returned(Main)) = caller[Main].want
       /\ documents = caller[Main].bare
  /\ pc[Main] = "idle" => documents = caller[Main].bare

\* UpdateDocument is returning nil after it replaced a record by another
\* payload, and the second store holds the same
C21_Witness ==
  /\ pc[Main] = "Unlock"
  /\ caller[Main].sc.svc = "UpdateDocument"
  /\ caller[Main].want.err = Nil
  /\ frame[Main].err = Nil
  /\ Cardinality(DOMAIN documents) > 1
  /\ documents[caller[Main].sc.id].Name = caller[Main].sc.doc.Name
  /\ caller[Main].sc.doc.ID # caller[Main].sc.id

\* ------------------------------------------------- what callers hold
\* HolderSpec: one goroutine, a test that keeps the record it passed to
\* Create or Update and the records Get and List returned, and then writes
\* to them.  A value the test holds is a cell: the record rec, the call it
\* came from, the keys of the store's map whose element is the same memory,
\* and whether the test has written to it.
Cell(rec, c, keys) == [rec |-> rec, from |-> c.op, of |-> keys, dirty |-> FALSE]

\* (a variant for a store that keeps pointers: map[string]*Document, Get and
\*  List returning them)
AliasesOfPointers(c, rec) ==
  IF c.op \in {"Create", "Update"} THEN {c.id} ELSE {rec.ID}

\* The keys of s.documents whose element shares memory with the caller's
\* record rec of call c: none.  The parameter doc of Create and Update is a
\* Document, a copy of the argument; Get returns a Document, a copy of the
\* map's element; List appends copies to a slice it made.
AliasesOf(c, rec) == {}

\* the cells a caller holds after the call with results r
Holdings(r) ==
  CASE r.call.op \in {"Create", "Update"} /\ r.err = Nil ->
         <<Cell(r.call.doc, r.call, AliasesOf(r.call, r.call.doc))>>
    [] r.call.op = "Get" /\ r.err = Nil ->
         <<Cell(r.doc, r.call, AliasesOf(r.call, r.doc))>>
    [] r.call.op = "List" ->
         [i \in 1..Len(r.docs) |->
            Cell(r.docs[i], r.call, AliasesOf(r.call, r.docs[i]))]
    [] OTHER -> <<>>

Holder(cells) == [kind |-> "holder", held |-> cells]

HolderCall(p) ==
  /\ results[p] = NoResult
  /\ \E c \in ConcCalls : CallFrom(p, c, Holder(<<>>))

\* the caller assigns what the call returned to its variables
Keep(p) ==
  /\ pc[p] = "idle"
  /\ results[p] # NoResult
  /\ caller' = [caller EXCEPT ![p] = Holder(Holdings(results[p]))]
  /\ results' = [results EXCEPT ![p] = NoResult]
  /\ UNCHANGED <<documents, mu, pc, call, frame, life, fresh, net>>

\* the caller assigns to the fields of a record it holds; memory the
\* store's map shares with it changes too
Scribble(p) ==
  /\ pc[p] = "idle"
  /\ caller[p].kind = "holder"
  /\ \E i \in 1..Len(caller[p].held), d \in Document :
       /\ ~caller[p].held[i].dirty
       /\ d # caller[p].held[i].rec
       /\ caller' = [caller EXCEPT ![p].held[i].rec = d,
                                    ![p].held[i].dirty = TRUE]
       /\ documents' = [k \in DOMAIN documents |->
                          IF k \in caller[p].held[i].of THEN d ELSE documents[k]]
  /\ UNCHANGED <<mu, pc, call, frame, life, fresh, results, net>>

InitHolder ==
  /\ documents = EmptyMap
  /\ mu = [writer |-> 0, readers |-> {}]
  /\ pc = [p \in Procs |-> "idle"]
  /\ call = [p \in Procs |-> NoCall]
  /\ frame = [p \in Procs |-> NoFrame]
  /\ life = [k \in IDs |-> "never"]
  /\ fresh = [k \in {} |-> None]
  /\ results = [p \in {Main} |-> NoResult]
  /\ net = 0
  /\ caller = [p \in Procs |-> IF p = Main THEN Holder(<<>>) ELSE NoCaller]

HolderNext ==
  \/ HolderCall(Main) \/ Keep(Main) \/ Scribble(Main)
  \/ Lock(Main) \/ RLock(Main) \/ Unlock(Main) \/ RUnlock(Main)
  \/ CreateCheck(Main) \/ CreateStore(Main)
  \/ GetRead(Main)
  \/ DeleteCheck(Main) \/ DeleteRemove(Main)
  \/ ListNext(Main) \/ ListDone(Main)
  \/ UpdateCheck(Main) \/ UpdateStore(Main)
  \/ PartialUpdateRead(Main) \/ PartialUpdateStore(Main)

HolderSpec == InitHolder /\ [][HolderNext]_vars

StatusOK        == 200
StatusCreated   == 201
StatusNoContent == 204
StatusNotFound  == 404
StatusConflict  == 409

\* a request whose body, if it has one, is JSON the handler can bind
Request(m, k, d, u) == [method |-> m, id |-> k, doc |-> d, updates |-> u]

\* what c.JSON or c.Status writes
NoBody         == [kind |-> "none", doc |-> ZeroDoc, docs |-> <<>>, error |-> Nil]
DocBody(d)     == [kind |-> "doc", doc |-> d, docs |-> <<>>, error |-> Nil]
DocsBody(ds)   == [kind |-> "docs", doc |-> ZeroDoc, docs |-> ds, error |-> Nil]
ErrorBody(e)   == [kind |-> "error", doc |-> ZeroDoc, docs |-> <<>>, error |-> e]
Response(s, b) == [status |-> s, body |-> b]

\* the locals of a handler: its request, whether its first or its second
\* service call is the last one made, and the response once written
Handling(r, stage) ==
  [kind |-> "handler", req |-> r, stage |-> stage, resp |-> Response(0, NoBody)]

\* the first service call of the handler of request r
FirstCall(r) ==
  CASE r.method = "POST" -> ServiceMethod("CreateDocument", r.doc.ID, r.doc, NoUpdates)
    [] r.method = "GET" -> ServiceMethod("GetDocument", r.id, ZeroDoc, NoUpdates)
    [] r.method = "LIST" -> ServiceMethod("ListDocuments", 0, ZeroDoc, NoUpdates)
    [] r.method = "PUT" -> ServiceMethod("UpdateDocument", r.id, r.doc, NoUpdates)
    [] r.method = "PATCH" ->
         ServiceMethod("PartialUpdateDocument", r.id, ZeroDoc, r.updates)
    [] r.method = "DELETE" -> ServiceMethod("DeleteDocument", r.id, ZeroDoc, NoUpdates)

\* updatedDoc, _ := ctrl.service.GetDocument(id)
SecondCall(r) == ServiceMethod("GetDocument", r.id, ZeroDoc, NoUpdates)

\* the handler of request r reads the record back after service result res
ReadsBack(r, stage, res) ==
  /\ r.method \in {"PUT", "PATCH"}
  /\ stage = "first"
  /\ res.err = Nil

\* (a variant that answers a failed create with 400, as a failed bind)
ReplyConflictAsBadRequest(r, stage, res) ==
  CASE stage = "second" -> Response(StatusOK, DocBody(res.doc))
    [] r.method = "POST" ->
         IF res.err # Nil THEN Response(400, ErrorBody(res.err))
         ELSE Response(StatusCreated, DocBody(r.doc))
    [] r.method = "GET" ->
         IF res.err # Nil THEN Response(StatusNotFound, ErrorBody(res.err))
         ELSE Response(StatusOK, DocBody(res.doc))
    [] r.method = "LIST" -> Response(StatusOK, DocsBody(res.list))
    [] r.method = "DELETE" ->
         IF res.err # Nil THEN Response(StatusNotFound, ErrorBody(res.err))
         ELSE Response(StatusNoContent, NoBody)
    [] OTHER -> Response(StatusNotFound, ErrorBody(res.err))

\* the response of the handler of request r to the result res of its last
\* service call (after the second call: the record, whatever the error)
Reply(r, stage, res) ==
  CASE stage = "second" -> Response(StatusOK, DocBody(res.doc))
    [] r.method = "POST" ->
         IF res.err # Nil THEN Response(StatusConflict, ErrorBody(res.err))
         ELSE Response(StatusCreated, DocBody(r.doc))
    [] r.method = "GET" ->
         IF res.err # Nil THEN Response(StatusNotFound, ErrorBody(res.err))
         ELSE Response(StatusOK, DocBody(res.doc))
    [] r.method = "LIST" -> Response(StatusOK, DocsBody(res.list))
    [] r.method = "DELETE" ->
         IF res.err # Nil THEN Response(StatusNotFound, ErrorBody(res.err))
         ELSE Response(StatusNoContent, NoBody)
    [] OTHER -> Response(StatusNotFound, ErrorBody(res.err))

\* the service call the handler with locals h made last, and its result
LastCall(h) == IF h.stage = "first" THEN FirstCall(h.req) ELSE SecondCall(h.req)

ServiceReturned(p) == ServiceResult(LastCall(caller[p]), results[p])

\* the goroutine of a request enters its handler, which calls the service
Serve(p, r) ==
  /\ caller[p] = NoCaller
  /\ results[p] = NoResult
  /\ CallFrom(p, Delegate(FirstCall(r)), Handling(r, "first"))

\* the service call of the handler on goroutine p has returned
Back(p) ==
  /\ pc[p] = "idle"
  /\ caller[p].kind = "handler"
  /\ caller[p].stage \in {"first", "second"}
  /\ results[p] # NoResult

\* updatedDoc, _ := ctrl.service.GetDocument(id)
Requery(p) ==
  /\ Back(p)
  /\ ReadsBack(caller[p].req, caller[p].stage, ServiceReturned(p))
  /\ CallFrom(p, Delegate(SecondCall(caller[p].req)),
              Handling(caller[p].req, "second"))

\* c.JSON(...) or c.Status(...); return
Respond(p) ==
  /\ Back(p)
  /\ ~ReadsBack(caller[p].req, caller[p].stage, ServiceReturned(p))
  /\ caller' = [caller EXCEPT
                  ![p].stage = "done",
                  ![p].resp = Reply(caller[p].req, caller[p].stage,
                                    ServiceReturned(p))]
  /\ results' = [results EXCEPT ![p] = NoResult]
  /\ UNCHANGED <<documents, mu, pc, call, frame, life, fresh, net>>

\* the handler returns; the response has gone to the client
Finish(p) ==
  /\ caller[p].kind = "handler"
  /\ caller[p].stage = "done"
  /\ caller' = [caller EXCEPT ![p] = NoCaller]
  /\ UNCHANGED <<documents, mu, pc, call, frame, life, fresh, results, net>>

\* RouteSpec: the requests of the controller's tests, one at a time, with
\* every record and every update map of the bounds.
Requests ==
  {Request("POST", d.ID, d, NoUpdates) : d \in Document} \cup
  {Request("GET", k, ZeroDoc, NoUpdates) : k \in IDs} \cup
  {Request("LIST", 0, ZeroDoc, NoUpdates)} \cup
  {Request("PUT", k, d, NoUpdates) : k \in IDs, d \in Document} \cup
  {Request("PATCH", k, ZeroDoc, u) : k \in IDs, u \in Updates} \cup
  {Request("DELETE", k, ZeroDoc, NoUpdates) : k \in IDs}

RouteNext ==
  \/ \E r \in Requests : Serve(Main, r)
  \/ Requery(Main) \/ Respond(Main) \/ Finish(Main)
  \/ Lock(Main) \/ RLock(Main) \/ Unlock(Main) \/ RUnlock(Main)
  \/ CreateCheck(Main) \/ CreateStore(Main)
  \/ GetRead(Main)
  \/ DeleteCheck(Main) \/ DeleteRemove(Main)
  \/ ListNext(Main) \/ ListDone(Main)
  \/ UpdateCheck(Main) \/ UpdateStore(Main)
  \/ PartialUpdateRead(Main) \/ PartialUpdateStore(Main)

RouteSpec == InitWaited /\ [][RouteNext]_vars

\* the handler on goroutine p writes its response
Responds(p) == Back(p) /\ caller'[p].stage = "done"

\* C24: at the HTTP boundary a create request whose store Create fails with
\* "document already exists" is answered 409; a get, update, partial-update
\* or delete request whose store call fails with "document not found" is
\* answered 404; a successful create is answered 201, a successful get,
\* update or partial update 200, a successful delete 204.
C24_StatusMapping ==
  [][\A p \in Procs :
       /\ Responds(p) =>
            LET m    == caller[p].req.method
                r    == results[p]
                code == caller'[p].resp.status
            IN  /\ (m = "POST" /\ r.err = ErrAlreadyExists) => code = StatusConflict
                /\ (m = "POST" /\ r.err = Nil) => code = StatusCreated
                /\ (m \in {"GET", "PUT", "PATCH", "DELETE"}
                      /\ caller[p].stage = "first" /\ r.err = ErrNotFound) =>
                     code = StatusNotFound
                /\ (m = "GET" /\ r.err = Nil) => code = StatusOK
                /\ (m = "DELETE" /\ r.err = Nil) => code = StatusNoContent
                /\ (m \in {"PUT", "PATCH"} /\ caller[p].stage = "second"
                      /\ r.err = Nil) => code = StatusOK
       /\ (Back(p) /\ caller[p].stage = "first" /\ caller'[p] # caller[p]) =>
            \/ Responds(p)
            \/ /\ caller[p].req.method \in {"PUT", "PATCH"}
               /\ results[p].err = Nil
               /\ caller'[p].stage = "second"
               /\ call'[p] = GetCall(caller[p].req.id)]_vars

\* a create request of a stored identifier has been answered 409 with the
\* store's error
C24_Witness ==
  /\ caller[Main].kind = "handler"
  /\ caller[Main].stage = "done"
  /\ caller[Main].req.method = "POST"
  /\ caller[Main].resp = Response(StatusConflict, ErrorBody(ErrAlreadyExists))
  /\ Exists(documents, caller[Main].req.id)

\* RaceSpec: requests that write to one identifier, served concurrently,
\* one goroutine per request: creates, replacements, name changes and
\* deletes.
RaceRequests ==
  {Request("POST", 0, NiceDoc(0), NoUpdates),
   Request("PUT", 0, OtherDoc(0), NoUpdates),
   Request("PATCH", 0, ZeroDoc, NameUpdate),
   Request("DELETE", 0, ZeroDoc, NoUpdates)}

RaceNext ==
  \E p \in Procs :
    \/ \E r \in RaceRequests : Serve(p, r)
    \/ Requery(p) \/ Respond(p) \/ Finish(p)
    \/ Lock(p) \/ LockAcquired(p) \/ RLock(p) \/ Unlock(p) \/ RUnlock(p)
    \/ CreateCheck(p) \/ CreateStore(p)
    \/ GetRead(p)
    \/ DeleteCheck(p) \/ DeleteRemove(p)
    \/ UpdateCheck(p) \/ UpdateStore(p)
    \/ PartialUpdateRead(p) \/ PartialUpdateStore(p)

RaceSpec == InitWaited /\ [][RaceNext]_vars

\* C27: when the update call of the PUT or PATCH handler on identifier k
\* succeeds, the body of its 200 response is the record as that update left
\* it: id k; for PUT the name and the description of the payload; for PATCH
\* the string fields supplied; in every interleaving with other requests.
C27_ResponseIsUpdatedRecord ==
  [][\A p \in Procs :
       (Responds(p) /\ caller[p].stage = "second") =>
         LET r == caller[p].req
             b == caller'[p].resp.body
         IN  /\ caller'[p].resp.status = StatusOK
             /\ b.kind = "doc"
             /\ b.doc.ID = r.id
             /\ r.method = "PUT" =>
                  /\ b.doc.Name = r.doc.Name
                  /\ b.doc.Description = r.doc.Description
             /\ r.method = "PATCH" =>
                  \A key \in {"name", "description"} :
                    HasString(r.updates, key) =>
                      Field(b.doc, key) = r.updates[key].v]_vars

\* ------------------------------------------------------------- linearizability
\* The step at which the call of goroutine p takes effect: for a writer the
\* step that writes or, if it returns an error, the failed lookup; for Get
\* the lookup; for List the end of the range loop.
TakesEffect(p) ==
  \/ Leaves(p, "act")
  \/ Leaves(p, "wcs") /\ pc'[p] = "Unlock"
  \/ Leaves(p, "rcs")

\* C25: linearizability: every call takes effect in one step between its
\* invocation and its return; in that step the mapping becomes, and the
\* call's results are, what the method run on its own gives from the
\* mapping of that moment; no other step of the call changes the mapping.
\* So the results and the final mapping of a concurrent execution are those
\* of the calls run one after another in the order of these steps, which
\* respects real-time precedence.
C25_Linearizable ==
  [][\A p \in Procs :
       /\ TakesEffect(p) =>
            LET out == Sequential(documents, call[p])
            IN  /\ documents' = out.docs
                /\ pc'[p] \in {"Unlock", "RUnlock"}
                /\ Handed(p)' = [err |-> out.err, doc |-> out.doc, list |-> out.list]
       /\ (pc'[p] # pc[p] /\ ~TakesEffect(p)) =>
            /\ documents' = documents
            /\ pc[p] \in {"Unlock", "RUnlock"} => Returned(p).err = frame[p].err
       /\ (pc'[p] = pc[p] /\ pc[p] \in {"Unlock", "RUnlock"}) =>
            Handed(p)' = Handed(p)]_vars

\* a Create has taken effect and is returning while a List that was called
\* meanwhile is blocked and an Update of the same identifier waits for the
\* lock
C25_Witness ==
  \E p, q, r \in Procs :
    /\ pc[p] = "Unlock" /\ call[p].op = "Create" /\ frame[p].err = Nil
    /\ pc[q] = "rblocked" /\ call[q].op = "List"
    /\ pc[r] = "Lock" /\ call[r].op = "Update" /\ call[r].id = call[p].id

\* C28: snapshot consistency of List under concurrency: from the first
\* record it reads to its return, what a List has collected is part of the
\* mapping as it stands, each record once, and at its return it is the
\* whole mapping of that instant; it never holds a record from before a
\* concurrent Create, Update, PartialUpdate or Delete next to one from after.
C28_ListSnapshot ==
  \A p \in Procs :
    (call[p].op = "List" /\ InRead(p)) =>
      /\ \A i \in 1..Len(frame[p].docs) :
           /\ \E k \in DOMAIN documents : documents[k] = frame[p].docs[i]
           /\ \A j \in 1..Len(frame[p].docs) :
                frame[p].docs[j] = frame[p].docs[i] => j = i
      /\ \A q \in Procs \ {p} : ~InWrite(q)
      /\ pc[p] = "RUnlock" =>
           {frame[p].docs[i] : i \in 1..Len(frame[p].docs)} =
             {documents[k] : k \in DOMAIN documents}

\* a List is returning both records while an Update of one of them, called
\* during the List, waits for the List to leave
C28_Witness ==
  \E p, q \in Procs :
    /\ Listed(p)
    /\ Len(frame[p].docs) = Cardinality(IDs)
    /\ pc[q] = "drain"
    /\ call[q].op = "Update"

\* ------------------------------------------------- two partial updates
\* PatchPairSpec: after a Create has returned, one goroutine changes the
\* name of the record and another its description, each once, at any time;
\* the other goroutines read.  Nobody else writes.
NamePatcher == 1
DescPatcher == 2
Readers     == Procs \ {NamePatcher, DescPatcher}

\* the record is stored and no Create is running
Populated ==
  /\ documents # EmptyMap
  /\ \A q \in Procs : call[q].op # "Create"

PatchPairCreate(p) ==
  /\ p = NamePatcher
  /\ documents = EmptyMap
  /\ \E d \in Document : Call(p, CreateCall(d))

PatchName(p) ==
  /\ p = NamePatcher
  /\ Populated
  /\ results[p].call.op = "Create"
  /\ \E k \in DOMAIN documents, n \in Names :
       Call(p, PartialUpdateCall(k, [key \in {"name"} |-> StringVal(n)]))

PatchDescription(p) ==
  /\ p = DescPatcher
  /\ Populated
  /\ results[p] = NoResult
  /\ \E k \in DOMAIN documents, d \in Descriptions :
       Call(p, PartialUpdateCall(k, [key \in {"description"} |-> StringVal(d)]))

PatchPairRead(p) ==
  /\ p \in Readers
  /\ results[p] = NoResult
  /\ \E k \in IDs : Call(p, GetCall(k))

PatchPairNext ==
  \E p \in Procs :
    \/ PatchPairCreate(p) \/ PatchName(p) \/ PatchDescription(p)
    \/ PatchPairRead(p)
    \/ Lock(p) \/ LockAcquired(p) \/ RLock(p) \/ Unlock(p) \/ RUnlock(p)
    \/ CreateCheck(p) \/ CreateStore(p)
    \/ GetRead(p)
    \/ PartialUpdateRead(p) \/ PartialUpdateStore(p)

PatchPairSpec == InitWaited /\ [][PatchPairNext]_vars

\* both partial updates have returned
BothPatched ==
  /\ results[NamePatcher].call.op = "PartialUpdate"
  /\ results[DescPatcher].call.op = "PartialUpdate"

\* C26: no lost field update: when PartialUpdate(k, {name: n}) and
\* PartialUpdate(k, {description: d}) run concurrently on a present k with
\* no other writer of k, in every interleaving both return nil and the
\* stored record then has the name n and the description d.
C26_NoLostField ==
  /\ \A p \in {NamePatcher, DescPatcher} :
       (pc[p] = "Unlock" /\ call[p].op = "PartialUpdate") => frame[p].err = Nil
  /\ BothPatched =>
       LET k == results[NamePatcher].call.id
       IN  /\ results[NamePatcher].err = Nil
           /\ results[DescPatcher].err = Nil
           /\ results[DescPatcher].call.id = k
           /\ k \in DOMAIN documents
           /\ documents[k].ID = k
           /\ documents[k].Name = results[NamePatcher].call.updates["name"].v
           /\ documents[k].Description =
                results[DescPatcher].call.updates["description"].v

\* the partial update of the description has written and is returning
\* while that of the name, called meanwhile with a name the record does not
\* have, waits for the lock
C26_Witness ==
  /\ pc[DescPatcher] = "Unlock"
  /\ call[DescPatcher].op = "PartialUpdate"
  /\ frame[DescPatcher].err = Nil
  /\ pc[NamePatcher] = "Lock"
  /\ call[NamePatcher].op = "PartialUpdate"
  /\ call[NamePatcher].id = call[DescPatcher].id
  /\ documents[call[NamePatcher].id].Name # call[NamePatcher].updates["name"].v
  /\ documents[call[NamePatcher].id].Description # 0

\* ------------------------------------------------------------- frame
\* C31: each successful Create, Update, PartialUpdate or Delete on
\* identifier k changes only the entry for k: the writing step of the call,
\* which ends in nil, leaves the presence of every other identifier and the
\* record stored under it as they were, and no other step of the call
\* changes the mapping.
C31_OnlyOwnEntry ==
  [][\A p \in Procs :
       /\ (Leaves(p, "act") /\ call[p].op \in WriteOps) =>
            /\ frame'[p].err = Nil
            /\ pc'[p] = "Unlock"
            /\ \A j \in IDs \ {call[p].id} :
                 /\ Exists(documents', j) <=> Exists(documents, j)
                 /\ Exists(documents, j) => documents'[j] = documents[j]
            /\ Remove(documents', call[p].id) = Remove(documents, call[p].id)
       /\ (pc'[p] # pc[p] /\ ~Leaves(p, "act")) => documents' = documents]_vars

\* a Delete has removed its record and is returning nil while a record with
\* a name and a description is stored under another identifier
C31_Witness ==
  \E p \in Procs :
    /\ pc[p] = "Unlock" /\ call[p].op = "Delete" /\ frame[p].err = Nil
    /\ ~Exists(documents, call[p].id)
    /\ \E j \in IDs \ {call[p].id} :
         /\ Exists(documents, j)
         /\ documents[j].Name # 0 /\ documents[j].Description # 0

\* ------------------------------------------------------------- key and id
\* C32: key/identifier agreement: in every reachable state, whatever calls
\* of Create, Update, PartialUpdate and Delete were made and with whatever
\* arguments, the record stored under each identifier k that is present has
\* the id k.
C32_KeyIsId ==
  \A k \in DOMAIN documents : documents[k].ID = k

\* every identifier is present, and a PartialUpdate whose mapping has under
\* "id" a string other than the identifier it was called with is returning
\* nil
C32_Witness ==
  \E p \in Procs :
    /\ pc[p] = "Unlock" /\ call[p].op = "PartialUpdate" /\ frame[p].err = Nil
    /\ HasString(call[p].updates, "id")
    /\ call[p].updates["id"].v # call[p].id
    /\ DOMAIN documents = IDs

\* ------------------------------------------------------------- readers
\* ReadWriteSpec: TestDocumentStore_ConcurrentReadWrite.  One goroutine
\* calls Create, with one identifier after the other, while the others call
\* List and Get again and again, with any identifier; nobody deletes.
ReadWriteWriter == 1

ReadWriteCall(p) ==
  \E c \in ConcCalls :
    /\ IF p = ReadWriteWriter THEN c.op = "Create" ELSE c.op \in ReadOps
    /\ Call(p, c)

ReadWriteNext ==
  \E p \in Procs :
    \/ ReadWriteCall(p)
    \/ Lock(p) \/ LockAcquired(p) \/ RLock(p) \/ Unlock(p) \/ RUnlock(p)
    \/ CreateCheck(p) \/ CreateStore(p)
    \/ GetRead(p)
    \/ ListNext(p) \/ ListDone(p)

ReadWriteSpec == Init /\ [][ReadWriteNext]_vars

\* C33: Get and List are read-only: no step of a Get or a List, found or
\* not found, changes the mapping, so the mapping after the call is the
\* mapping before it; and with any number of readers running alongside
\* Creates no step lowers the number of stored records (every record that
\* is stored stays as it is).
C33_ReadOnly ==
  [][/\ \A p \in Procs :
          (call[p].op \in ReadOps /\ pc'[p] # pc[p]) => documents' = documents
     /\ Cardinality(DOMAIN documents') >= Cardinality(DOMAIN documents)
     /\ \A k \in DOMAIN documents :
          Exists(documents', k) /\ documents'[k] = documents[k]]_vars

\* a Get is returning "document not found" and a List is returning a
\* record, both holding the read lock, while a Create called meanwhile
\* waits for them
C33_Witness ==
  \E p, q, r \in Procs :
    /\ pc[p] = "RUnlock" /\ call[p].op = "Get" /\ frame[p].err = ErrNotFound
    /\ pc[q] = "RUnlock" /\ call[q].op = "List" /\ Len(frame[q].docs) = 1
    /\ pc[r] = "drain" /\ call[r].op = "Create"
    /\ Cardinality(DOMAIN documents) = 1

\* ------------------------------------------------------------- racing deletes
\* ConcurrentDeleteSpec: the test creates a record and, once Create has
\* returned, every goroutine calls Delete with the record's identifier,
\* once, at any time.  Nobody creates meanwhile.
ConcurrentDeleteCreate(p) ==
  /\ p = Main
  /\ results[p] = NoResult
  /\ \E d \in Document : Call(p, CreateCall(d))

ConcurrentDeleteCall(p) ==
  /\ results[Main] # NoResult
  /\ IF p = Main THEN results[p].call.op = "Create" ELSE results[p] = NoResult
  /\ Call(p, DeleteCall(results[Main].call.id))

ConcurrentDeleteNext ==
  \E p \in Procs :
    \/ ConcurrentDeleteCreate(p) \/ ConcurrentDeleteCall(p)
    \/ Lock(p) \/ Unlock(p)
    \/ CreateCheck(p) \/ CreateStore(p)
    \/ DeleteCheck(p) \/ DeleteRemove(p)

ConcurrentDeleteSpec == InitWaited /\ [][ConcurrentDeleteNext]_vars

\* the goroutines whose Delete has returned, and those whose Delete runs
Deleted  == {p \in Procs : results[p].call.op = "Delete"}
Deleting == {p \in Procs : call[p].op = "Delete"}

\* C34: of the N Delete(k) calls that run concurrently on a present k with
\* no Create of k in flight, in every interleaving exactly one returns nil
\* and the other N-1 return "document not found", and k is absent
\* afterwards: while some are still running at most one has ended in nil,
\* and once all those called have returned exactly one has.
C34_OneDeleteWins ==
  LET k    == results[Main].call.id
      wins == {p \in Deleted : results[p].err = Nil} \cup
              {p \in Deleting : pc[p] = "Unlock" /\ frame[p].err = Nil}
  IN  /\ Cardinality(wins) <= 1
      /\ \A p \in Deleting : pc[p] = "Unlock" => frame[p].err \in {Nil, ErrNotFound}
      /\ (Deleted # {} /\ Deleting = {}) =>
           /\ Cardinality({p \in Deleted : results[p].err = Nil}) = 1
           /\ \A p \in Deleted : results[p].err \in {Nil, ErrNotFound}
           /\ ~Exists(documents, k)

\* every goroutine has called Delete: one has removed the record and is
\* returning nil while all the others wait for the lock
C34_Witness ==
  \E p \in Procs :
    /\ pc[p] = "Unlock" /\ call[p].op = "Delete" /\ frame[p].err = Nil
    /\ \A q \in Procs \ {p} : pc[q] = "Lock" /\ call[q] = call[p]
    /\ documents = EmptyMap

\* ------------------------------------------------------------- delete and update
\* DeleteUpdateSpec: the test creates a record and, once Create has
\* returned, deletes it, while every other goroutine calls Update or
\* PartialUpdate with the record's identifier, once, at any time.
DeleteUpdateCreate(p) ==
  /\ p = Main
  /\ results[p] = NoResult
  /\ \E k \in IDs : Call(p, CreateCall(NiceDoc(k)))

DeleteUpdateDelete(p) ==
  /\ p = Main
  /\ results[p].call.op = "Create"
  /\ Call(p, DeleteCall(results[p].call.id))

DeleteUpdateCall(p) ==
  /\ p # Main
  /\ results[Main] # NoResult
  /\ results[p] = NoResult
  /\ LET k == results[Main].call.id
     IN  \/ Call(p, UpdateCall(k, OtherDoc(k)))
         \/ Call(p, PartialUpdateCall(k, NameUpdate))

DeleteUpdateNext ==
  \E p \in Procs :
    \/ DeleteUpdateCreate(p) \/ DeleteUpdateDelete(p) \/ DeleteUpdateCall(p)
    \/ Lock(p) \/ Unlock(p)
    \/ CreateCheck(p) \/ CreateStore(p)
    \/ DeleteCheck(p) \/ DeleteRemove(p)
    \/ UpdateCheck(p) \/ UpdateStore(p)
    \/ PartialUpdateRead(p) \/ PartialUpdateStore(p)

DeleteUpdateSpec == InitWaited /\ [][DeleteUpdateNext]_vars

\* the goroutines whose Update or PartialUpdate runs, and those whose
\* Update or PartialUpdate has returned
Updating == {p \in Procs \ {Main} : call[p].op \in {"Update", "PartialUpdate"}}
Updated  == {p \in Procs \ {Main} : results[p] # NoResult}

\* C35: an update never resurrects a deleted record: when Delete(k) runs
\* concurrently with Update(k, r) or PartialUpdate(k, u) on a present k, in
\* every interleaving Delete returns nil, the update returns nil (it wrote
\* before the Delete removed k) or "document not found" (k was removed),
\* k is never present after the Delete has removed it, and so is absent once
\* both have returned.
C35_NoResurrection ==
  LET k == results[Main].call.id
  IN  /\ (pc[Main] = "Unlock" /\ call[Main].op = "Delete") => frame[Main].err = Nil
      /\ results[Main].call.op = "Delete" => results[Main].err = Nil
      /\ \A j \in IDs : life[j] = "deleted" => ~Exists(documents, j)
      /\ \A p \in Updating :
           pc[p] = "Unlock" =>
             \/ frame[p].err = Nil /\ life[k] = "created" /\ Exists(documents, k)
             \/ frame[p].err = ErrNotFound /\ life[k] = "deleted"
      /\ \A p \in Updated : results[p].err \in {Nil, ErrNotFound}
      /\ (results[Main].call.op = "Delete" /\ Updating = {}) =>
           ~Exists(documents, k)

\* the Delete has returned nil, an Update has returned nil (it took effect
\* before the Delete), and a PartialUpdate is returning "document not found"
C35_Witness ==
  \E p, q \in Procs \ {Main} :
    /\ results[Main].call.op = "Delete" /\ results[Main].err = Nil
    /\ results[p].call.op = "Update" /\ results[p].err = Nil
    /\ pc[q] = "Unlock" /\ call[q].op = "PartialUpdate"
    /\ frame[q].err = ErrNotFound
    /\ documents = EmptyMap

\* ------------------------------------------------------------- identifier reuse
\* ReuseSpec: one goroutine, a test that on a new store creates a record,
\* deletes it, creates another record with the same identifier and reads
\* it.  The test's locals: the two records, and at, the number of calls made.
ReuseOps == <<"Create", "Delete", "Create", "Get">>

Reuses ==
  {t \in [kind : {"reuse"}, at : {0}, first : Document, second : Document] :
     t.first.ID = t.second.ID}

\* the n-th call of the test with locals t
ReuseStep(t, n) ==
  CASE n = 1 -> CreateCall(t.first)
    [] n = 2 -> DeleteCall(t.first.ID)
    [] n = 3 -> CreateCall(t.second)
    [] OTHER -> GetCall(t.second.ID)

ReuseCall(p) ==
  /\ caller[p].at < Len(ReuseOps)
  /\ CallFrom(p, ReuseStep(caller[p], caller[p].at + 1),
              [caller[p] EXCEPT !.at = @ + 1])

InitReuse ==
  /\ documents = EmptyMap
  /\ mu = [writer |-> 0, readers |-> {}]
  /\ pc = [p \in Procs |-> "idle"]
  /\ call = [p \in Procs |-> NoCall]
  /\ frame = [p \in Procs |-> NoFrame]
  /\ life = [k \in IDs |-> "never"]
  /\ fresh = [k \in {} |-> None]
  /\ results = [p \in {} |-> NoResult]
  /\ net = 0
  /\ \E t \in Reuses :
       caller = [p \in Procs |-> IF p = Main THEN t ELSE NoCaller]

ReuseNext ==
  \/ ReuseCall(Main)
  \/ Lock(Main) \/ RLock(Main) \/ Unlock(Main) \/ RUnlock(Main)
  \/ CreateCheck(Main) \/ CreateStore(Main)
  \/ DeleteCheck(Main) \/ DeleteRemove(Main)
  \/ GetRead(Main)

ReuseSpec == InitReuse /\ [][ReuseNext]_vars

\* the n-th call of the test is returning
ReuseAt(n) ==
  /\ pc[Main] \in {"Unlock", "RUnlock"}
  /\ caller[Main].at = n
  /\ call[Main].op = ReuseOps[n]

\* C36: identifier reuse: after Delete(k) has returned nil, a Create with
\* identifier k returns nil again and stores its record as given, and the
\* Get(k) that follows returns nil and exactly that record: no field of the
\* deleted record is carried over.
C36_IdentifierReuse ==
  LET t == caller[Main]
      r == Returned(Main)
  IN  /\ ReuseAt(2) => r.err = Nil /\ ~Exists(documents, t.first.ID)
      /\ ReuseAt(3) =>
           /\ r.err = Nil
           /\ Exists(documents, t.second.ID)
           /\ documents[t.second.ID] = t.second
      /\ ReuseAt(4) => r.err = Nil /\ r.doc = t.second

\* the Get is returning after a record with a name and a description was
\* deleted and a record without either was created under its identifier
C36_Witness ==
  /\ ReuseAt(Len(ReuseOps))
  /\ caller[Main].first.Name # 0 /\ caller[Main].first.Description # 0
  /\ caller[Main].second.Name = 0 /\ caller[Main].second.Description = 0
  /\ frame[Main].doc = caller[Main].second

\* ------------------------------------------------------------- updates, twice
\* TwiceSpec: one goroutine, a test that on a new store creates a record,
\* applies a PartialUpdate to it and applies it again, puts the record
\* back with an Update, applies an Update and applies it again.  Before it
\* repeats a call the test copies the mapping.  The test's locals: the
\* record first, the mapping updates, the payload doc, the copy snap, and
\* at, the number of calls made.
TwiceOps == <<"Create", "PartialUpdate", "Again", "Restore", "Update", "Again">>

Twices ==
  [kind : {"twice"}, at : {0}, first : Document, updates : Updates,
   doc : Document, snap : {EmptyMap}]

\* the n-th call of the test with locals t
RECURSIVE TwiceStep(_, _)
TwiceStep(t, n) ==
  CASE TwiceOps[n] = "Create" -> CreateCall(t.first)
    [] TwiceOps[n] = "PartialUpdate" -> PartialUpdateCall(t.first.ID, t.updates)
    [] TwiceOps[n] = "Restore" -> UpdateCall(t.first.ID, t.first)
    [] TwiceOps[n] = "Update" -> UpdateCall(t.first.ID, t.doc)
    [] OTHER -> TwiceStep(t, n - 1)

TwiceCall(p) ==
  /\ caller[p].at < Len(TwiceOps)
  /\ CallFrom(p, TwiceStep(caller[p], caller[p].at + 1),
              [caller[p] EXCEPT !.at = @ + 1,
                                !.snap = IF TwiceOps[caller[p].at + 1] = "Again"
                                           THEN documents ELSE @])

InitTwice ==
  /\ documents = EmptyMap
  /\ mu = [writer |-> 0, readers |-> {}]
  /\ pc = [p \in Procs |-> "idle"]
  /\ call = [p \in Procs |-> NoCall]
  /\ frame = [p \in Procs |-> NoFrame]
  /\ life = [k \in IDs |-> "never"]
  /\ fresh = [k \in {} |-> None]
  /\ results = [p \in {} |-> NoResult]
  /\ net = 0
  /\ \E t \in Twices :
       caller = [p \in Procs |-> IF p = Main THEN t ELSE NoCaller]

TwiceNext ==
  \/ TwiceCall(Main)
  \/ Lock(Main) \/ Unlock(Main)
  \/ CreateCheck(Main) \/ CreateStore(Main)
  \/ UpdateCheck(Main) \/ UpdateStore(Main)
  \/ PartialUpdateRead(Main) \/ PartialUpdateStore(Main)

TwiceSpec == InitTwice /\ [][TwiceNext]_vars

\* the n-th call of the test is returning
TwiceAt(n) ==
  /\ pc[Main] = "Unlock"
  /\ caller[Main].at = n

\* the mapping updates is {name: n, description: d} with strings n and d,
\* and the record r has the name n and the description d
Alike(updates, r) ==
  /\ DOMAIN updates = {"name", "description"}
  /\ HasString(updates, "name") /\ updates["name"].v = r.Name
  /\ HasString(updates, "description") /\ updates["description"].v = r.Description

\* C37: on a present identifier k, PartialUpdate(k, {name: n, description:
\* d}) with strings n and d leaves the mapping that Update(k, r) leaves
\* from the same mapping, for any record r with the name n and the
\* description d; and the same Update or the same PartialUpdate applied a
\* second time leaves the mapping as the first application left it.
C37_UpdateAlgebra ==
  LET t == caller[Main]
  IN  \A n \in 1..Len(TwiceOps) :
        TwiceAt(n) =>
          /\ frame[Main].err = Nil
          /\ TwiceOps[n] = "Again" => documents = t.snap
          /\ TwiceOps[n] = "Restore" =>
               documents = [k \in {t.first.ID} |-> t.first]
          /\ (TwiceOps[n] = "Update" /\ Alike(t.updates, t.doc)) =>
               documents = t.snap

\* the Update is returning, with a payload that has the name and the
\* description of the PartialUpdate made before, both other than the
\* created record's, and another id than the record's
C37_Witness ==
  LET t == caller[Main]
  IN  /\ \E n \in 1..Len(TwiceOps) : TwiceAt(n) /\ TwiceOps[n] = "Update"
      /\ Alike(t.updates, t.doc)
      /\ t.doc.ID # t.first.ID
      /\ t.doc.Name # t.first.Name
      /\ t.doc.Description # t.first.Description
      /\ documents = t.snap

\* ------------------------------------------------------------- the empty id
\* goroutine p runs Create with a record whose id is the empty string
CreatesUnnamed(p) == call[p].op = "Create" /\ call[p].doc.ID = ZeroDoc.ID

\* C38: Create does not validate the identifier: a record whose id is the
\* empty string is accepted when the empty id is absent and is stored
\* under the empty key as given, a Create with an empty id fails with
\* "document already exists" (and changes nothing) when the empty id is
\* present, and List counts and returns the record under the empty key
\* with the others.
C38_EmptyIdAccepted ==
  [][\A p \in Procs :
       /\ (Leaves(p, "wcs") /\ CreatesUnnamed(p)) =>
            IF Exists(documents, ZeroDoc.ID)
              THEN /\ pc'[p] = "Unlock"
                   /\ frame'[p].err = ErrAlreadyExists
                   /\ documents' = documents
              ELSE pc'[p] = "act"
       /\ (Leaves(p, "act") /\ CreatesUnnamed(p)) =>
            /\ pc'[p] = "Unlock"
            /\ frame'[p].err = Nil
            /\ documents' = Store(documents, ZeroDoc.ID, call[p].doc)
       /\ (Leaves(p, "rcs") /\ call[p].op = "List"
             /\ Exists(documents, ZeroDoc.ID)) =>
            /\ Len(frame'[p].docs) = Cardinality(DOMAIN documents)
            /\ Positions(frame'[p].docs, documents[ZeroDoc.ID]) # {}]_vars

\* a Create of a record with an empty id is returning "document already
\* exists", the empty key holding another record with an empty id, and
\* another identifier being present too
C38_Witness ==
  \E p \in Procs :
    /\ pc[p] = "Unlock" /\ CreatesUnnamed(p)
    /\ frame[p].err = ErrAlreadyExists
    /\ Exists(documents, ZeroDoc.ID)
    /\ documents[ZeroDoc.ID].ID = ZeroDoc.ID
    /\ documents[ZeroDoc.ID] # call[p].doc
    /\ Cardinality(DOMAIN documents) > 1

\* ------------------------------------------------------------- store instances
\* InstancesSpec: one goroutine, a test that constructs stores and calls
\* them in any order.  A store's documents field refers to a map; heap
\* gives the mapping each map holds.  The test's locals: stores, the map of
\* each store it has constructed; on, the store its last call was made on;
\* unwritten, the stores it has not called a writer on; heap, the mapping
\* of every map but the one under the store of the last call, which the
\* variable documents gives.
MaxStores == 2   \* stores a test constructs

\* (a variant with a package-level map that every store refers to)
MakeMapGlobal(heap) ==
  [map  |-> 1,
   heap |-> [a \in (DOMAIN heap) \cup {1} |-> IF a \in DOMAIN heap THEN heap[a] ELSE EmptyMap]]

\* make(map[string]Document): a map no store refers to yet, without entries
MakeMap(heap) ==
  LET m == Cardinality(DOMAIN heap) + 1
  IN  [map  |-> m,
       heap |-> [a \in (DOMAIN heap) \cup {m} |-> IF a = m THEN EmptyMap ELSE heap[a]]]

\* the mapping of the i-th store of the test with locals t
Mapping(t, i) ==
  IF t.stores[i] = t.stores[t.on] THEN documents ELSE t.heap[t.stores[i]]

\* return &DocumentStore{documents: make(map[string]Document)}
NewDocumentStore(p) ==
  /\ pc[p] = "idle"
  /\ caller[p].kind = "instances"
  /\ Len(caller[p].stores) < MaxStores
  /\ LET made == MakeMap(caller[p].heap)
     IN  caller' = [caller EXCEPT
                      ![p].stores = Append(@, made.map),
                      ![p].unwritten = @ \cup {Len(caller[p].stores) + 1},
                      ![p].heap = made.heap]
  /\ UNCHANGED <<documents, mu, pc, call, frame, life, fresh, results, net>>

\* a call of Create, Get, Delete or List on the i-th store: s.documents is
\* from now on the map of that store
InstanceCall(p) ==
  /\ pc[p] = "idle"
  /\ caller[p].kind = "instances"
  /\ \E i \in 1..Len(caller[p].stores),
        c \in {d \in ConcCalls : d.op \in {"Create", "Get", "List", "Delete"}} :
       LET t    == caller[p]
           left == [t.heap EXCEPT ![t.stores[t.on]] = documents]
       IN  /\ documents' = left[t.stores[i]]
           /\ caller' = [caller EXCEPT
                           ![p].on = i,
                           ![p].unwritten = IF c.op \in WriteOps THEN @ \ {i} ELSE @,
                           ![p].heap = left]
           /\ call' = [call EXCEPT ![p] = c]
           /\ frame' = [frame EXCEPT ![p] = NoFrame]
           /\ pc' = [pc EXCEPT ![p] = IF c.op \in WriteOps THEN "Lock" ELSE "RLock"]
  /\ UNCHANGED <<mu, life, fresh, results, net>>

InitInstances ==
  /\ documents = EmptyMap
  /\ mu = [writer |-> 0, readers |-> {}]
  /\ pc = [p \in Procs |-> "idle"]
  /\ call = [p \in Procs |-> NoCall]
  /\ frame = [p \in Procs |-> NoFrame]
  /\ life = [k \in IDs |-> "never"]
  /\ fresh = [k \in {} |-> None]
  /\ results = [p \in {} |-> NoResult]
  /\ net = 0
  /\ caller = [p \in Procs |->
                 IF p = Main
                   THEN [kind |-> "instances",
                         stores |-> <<MakeMap(EmptyMap).map>>, on |-> 1,
                         unwritten |-> {1}, heap |-> MakeMap(EmptyMap).heap]
                   ELSE NoCaller]

InstancesNext ==
  \/ NewDocumentStore(Main) \/ InstanceCall(Main)
  \/ Lock(Main) \/ RLock(Main) \/ Unlock(Main) \/ RUnlock(Main)
  \/ CreateCheck(Main) \/ CreateStore(Main)
  \/ GetRead(Main)
  \/ DeleteCheck(Main) \/ DeleteRemove(Main)
  \/ ListNext(Main) \/ ListDone(Main)

InstancesSpec == InitInstances /\ [][InstancesNext]_vars

\* the stores the test has constructed
Constructed == 1..Len(caller[Main].stores)

====
